---- MODULE Spec2Model ----
(***************************************************************************)
(* A model of the raw-data containers of pet-rd-tools: the vendor          *)
(* factories (SiemensPETFactory, GEPETFactory), the Siemens mMR containers *)
(* (MMR32BitList, MMRSino, MMRNorm), the GE containers (IGEPET) and the    *)
(* command line tools nm_validate and nm_extract.                          *)
(*                                                                         *)
(* Text is a sequence of tokens.  A token is a string that stands for a    *)
(* run of characters no search pattern of the code can straddle: a label   *)
(* ("name of data file"), a numeral, a line terminator character, or a     *)
(* filler.  std::string::find over characters is Find over tokens.         *)
(***************************************************************************)
EXTENDS Integers, Sequences, FiniteSets, TLC

VARIABLES
  file,     \* the input path: what is there and whether gdcm can read it
  ds,       \* the DICOM data set of the input: one element per tag read
  fs,       \* the file system: path -> file
  fs0,      \* fs as it was before the first operation (history)
  reader,   \* the container the caller holds ("nullptr" when none)
  header,   \* IMMR::_headerString
  pc,       \* position of the caller
  ret,      \* the last operation and what it returned
  log,      \* severities logged so far
  trace,    \* factories and operations consulted so far (history)
  opt,      \* command line options
  exit      \* exit status of the tool ("running" until it ends)

vars == <<file, ds, fs, fs0, reader, header, pc, ret, log, trace, opt, exit>>

----------------------------------------------------------------------------
(* Bounds of the model *)

\* longest GE code value, in characters
MaxCodeLen == 2
\* number of image-type values concatenated in tag (0008,0008)
MaxImageValues == 2

----------------------------------------------------------------------------
(* std::string over tokens *)

\* std::string::find: the first position (from 1) where p occurs in s, 0 for npos
Find(s, p) ==
  LET hits == {i \in 1..(Len(s) - Len(p) + 1) : SubSeq(s, i, i + Len(p) - 1) = p}
  IN  IF hits = {} THEN 0 ELSE CHOOSE i \in hits : \A j \in hits : i <= j

Contains(s, p) == Find(s, p) # 0

\* all sequences over S of length 0..n
SeqsUpTo(S, n) == UNION {[1..k -> S] : k \in 0..n}

----------------------------------------------------------------------------
(* gdcm data elements, as the code reads them.                             *)
(*   null : DataElement::GetByteValue() is NULL (tag absent, or no value)  *)
(*   len, id : length and identity of the byte value                       *)
(*   str  : what gdcm::StringFilter::ToString gives for the tag            *)
(*   val  : what operator<< gives for DataElement::GetValue()              *)
(*   oom  : ToString runs out of memory (std::bad_alloc)                   *)

TextEl(t) ==
  [null |-> FALSE, len |-> Len(t), id |-> "text", str |-> t, val |-> t, oom |-> FALSE]

BytesEl(n) ==
  [null |-> FALSE, len |-> n, id |-> "inline", str |-> <<>>, val |-> <<"Loaded:">>,
   oom |-> FALSE]

AbsentEl(v) ==
  [null |-> TRUE, len |-> 0, id |-> "", str |-> <<>>, val |-> v, oom |-> FALSE]

OomEl(t) ==
  [null |-> FALSE, len |-> Len(t), id |-> "text", str |-> t, val |-> t, oom |-> TRUE]

\* the elements a tag without a usable value can be

\* Common.hpp GetTagInfo: [ok, dst]
GetTagInfo(el) ==
  IF ~el.null /\ el.oom
  THEN [ok |-> FALSE, dst |-> <<>>]
  ELSE LET d0 == IF ~el.null THEN el.str ELSE <<>>
       IN  IF Len(d0) = 0
           THEN IF Len(el.val) > 0 /\ el.val[1] = "Loaded:"
                THEN [ok |-> TRUE, dst |-> <<>>]
                ELSE [ok |-> TRUE, dst |-> el.val]
           ELSE [ok |-> TRUE, dst |-> d0]

----------------------------------------------------------------------------
(* Classification *)

\* IRawDataFactory::Open: [ok, manufacturerName, modelName]
Open(f, d) ==
  IF ~f.dicom
  THEN [ok |-> FALSE, manufacturerName |-> <<>>, modelName |-> <<>>]
  ELSE LET m == GetTagInfo(d.manufacturer)
           n == GetTagInfo(d.model)
       IN  IF ~m.ok
           THEN [ok |-> FALSE, manufacturerName |-> <<>>, modelName |-> <<>>]
           ELSE IF ~n.ok
           THEN [ok |-> FALSE, manufacturerName |-> m.dst, modelName |-> <<>>]
           ELSE [ok |-> TRUE, manufacturerName |-> m.dst, modelName |-> n.dst]

PatList == <<"ORIGINAL\\", "PRIMARY\\", "PET_LISTMODE">>
PatSino == <<"ORIGINAL\\", "PRIMARY\\", "PET_EM_SINO">>
PatNorm == <<"ORIGINAL\\", "PRIMARY\\", "PET_NORM">>

\* a variant of SiemensImageKind: the tests chained with else, so that the
\* first one that matches decides
SiemensImageKind_FirstMatch(imageTypeValue) ==
  IF Contains(imageTypeValue, PatList) THEN "EMMRLIST"
  ELSE IF Contains(imageTypeValue, PatSino) THEN "EMMRSINO"
  ELSE IF Contains(imageTypeValue, PatNorm) THEN "EMMRNORM"
  ELSE "EUNKNOWN"

\* the three image-type tests of SiemensPETFactory::GetFileType, in order:
\* each one that matches overwrites the result of the one before
SiemensImageKind(imageTypeValue) ==
  LET k1 == IF Contains(imageTypeValue, PatList) THEN "EMMRLIST" ELSE "EUNKNOWN"
      k2 == IF Contains(imageTypeValue, PatSino) THEN "EMMRSINO" ELSE k1
  IN  IF Contains(imageTypeValue, PatNorm) THEN "EMMRNORM" ELSE k2

\* SiemensPETFactory::GetFileType
SiemensGetFileType(f, d) ==
  LET o == Open(f, d) IN
  IF ~o.ok THEN "EERROR"
  ELSE IF Contains(o.manufacturerName, <<"SIEMENS">>)
  THEN LET t == GetTagInfo(d.imageType) IN
       IF ~t.ok THEN "EERROR"
       ELSE IF Contains(o.modelName, <<"Biograph_mMR">>)
            THEN SiemensImageKind(t.dst)
            ELSE "EUNKNOWN"
  ELSE "EUNKNOWN"

\* IDicomExtractor::IDicomExtractor(src): the container reads the file again
Construct(f, class) == IF f.ctorOK THEN class ELSE "raise"

\* SiemensPETFactory::Create_ptr: a container class, "nullptr" or "raise"
SiemensCreate_ptr(f, d) ==
  LET fType == SiemensGetFileType(f, d) IN
  CASE fType = "EMMRLIST" -> Construct(f, "MMR32BitList")
    [] fType = "EMMRSINO" -> Construct(f, "MMRSino")
    [] fType = "EMMRNORM" -> Construct(f, "MMRNorm")
    [] OTHER -> "nullptr"

\* a variant of GEGetFileType: the raw data type code compared for equality
GEGetFileType_Equality(f, d) ==
  LET o == Open(f, d) IN
  IF ~o.ok THEN "EERROR"
  ELSE IF Contains(o.manufacturerName, <<"GE MEDICAL SYSTEMS">>)
  THEN LET r == GetTagInfo(d.rawDataType) IN
       IF ~r.ok THEN "EERROR"
       ELSE IF r.dst = <<"3">>
       THEN LET s == GetTagInfo(d.sinoType) IN
            IF ~s.ok THEN "EERROR"
            ELSE IF Contains(s.dst, <<"0">>) THEN "EGEPETSINO"
            ELSE IF Contains(s.dst, <<"5">>) THEN "EGEPETCTAC"
            ELSE "EUNKNOWN"
       ELSE IF r.dst = <<"4">>
       THEN LET c == GetTagInfo(d.calType) IN
            IF ~c.ok THEN "EERROR"
            ELSE IF Contains(c.dst, <<"0">>) THEN "EGEPETNORM2D"
            ELSE IF Contains(c.dst, <<"2">>) THEN "EGEPETNORM3D"
            ELSE "EUNKNOWN"
       ELSE IF r.dst = <<"5">>
       THEN LET c == GetTagInfo(d.calType) IN
            IF ~c.ok THEN "EERROR"
            ELSE IF Contains(c.dst, <<"3">>) THEN "EGEPETGEO"
            ELSE "EUNKNOWN"
       ELSE "EUNKNOWN"
  ELSE "EUNKNOWN"

\* GEPETFactory::GetFileType
GEGetFileType(f, d) ==
  LET o == Open(f, d) IN
  IF ~o.ok THEN "EERROR"
  ELSE IF Contains(o.manufacturerName, <<"GE MEDICAL SYSTEMS">>)
  THEN LET r == GetTagInfo(d.rawDataType) IN
       IF ~r.ok THEN "EERROR"
       ELSE IF Contains(r.dst, <<"3">>)
       THEN LET s == GetTagInfo(d.sinoType) IN
            IF ~s.ok THEN "EERROR"
            ELSE IF Contains(s.dst, <<"0">>) THEN "EGEPETSINO"
            ELSE IF Contains(s.dst, <<"5">>) THEN "EGEPETCTAC"
            ELSE "EUNKNOWN"
       ELSE IF Contains(r.dst, <<"4">>)
       THEN LET c == GetTagInfo(d.calType) IN
            IF ~c.ok THEN "EERROR"
            ELSE IF Contains(c.dst, <<"0">>) THEN "EGEPETNORM2D"
            ELSE IF Contains(c.dst, <<"2">>) THEN "EGEPETNORM3D"
            ELSE "EUNKNOWN"
       ELSE IF Contains(r.dst, <<"5">>)
       THEN LET c == GetTagInfo(d.calType) IN
            IF ~c.ok THEN "EERROR"
            ELSE IF Contains(c.dst, <<"3">>) THEN "EGEPETGEO"
            ELSE "EUNKNOWN"
       ELSE "EUNKNOWN"
  ELSE "EUNKNOWN"

\* GEPETFactory::GetFileType, its last branch: the LOG(ERROR) that well-counter
\* calibration files are not supported
GEReportsWCC(f, d) ==
  LET o == Open(f, d)
      r == GetTagInfo(d.rawDataType)
  IN  /\ o.ok
      /\ Contains(o.manufacturerName, <<"GE MEDICAL SYSTEMS">>)
      /\ r.ok
      /\ ~Contains(r.dst, <<"3">>) /\ ~Contains(r.dst, <<"4">>)
      /\ ~Contains(r.dst, <<"5">>)
      /\ Contains(r.dst, <<"7">>)

\* GEPETFactory::Create_ptr
GECreate_ptr(f, d) ==
  LET fType == GEGetFileType(f, d) IN
  CASE fType = "EGEPETLIST" -> Construct(f, "GEPETList")
    [] fType = "EGEPETSINO" -> Construct(f, "GEPETSino")
    [] fType \in {"EGEPETNORM3D", "EGEPETNORM2D"} -> Construct(f, "GEPETNorm")
    [] fType = "EGEPETGEO" -> Construct(f, "GEPETGeo")
    [] OTHER -> "nullptr"

----------------------------------------------------------------------------
(* Paths and the file system.  A path is a directory and a file name; a    *)
(* name is its stem followed by its extensions, <<"a", ".l", ".hdr">>; the *)
(* empty name is the directory itself.  fs maps the paths that exist to    *)
(* what is there.                                                          *)

Path(dir, name) == [dir |-> dir, name |-> name]

DirOf(p) == Path(p.dir, <<>>)

\* boost::filesystem::path::stem: the name without its last extension
Stem(name) == IF Len(name) > 1 THEN SubSeq(name, 1, Len(name) - 1) ELSE name

\* boost::filesystem::path::replace_extension
ReplaceExtension(p, ext) == Path(p.dir, Stem(p.name) \o <<ext>>)

Directory == [len |-> 0, id |-> "dir", text |-> <<>>]
ReadOnlyDirectory == [len |-> 0, id |-> "rodir", text |-> <<>>]

Blob(n, id) == [len |-> n, id |-> id, text |-> <<>>]
TextFile(t) == [len |-> Len(t), id |-> "text", text |-> t]

\* boost::filesystem::exists
Exists(f, p) == p \in DOMAIN f

\* whether a file can be created at p: std::ofstream::is_open after opening
\* for writing, boost::filesystem::copy not throwing
CanCreate(f, p) ==
  /\ Exists(f, DirOf(p)) /\ f[DirOf(p)].id = "dir"
  /\ Len(p.name) > 0

\* the file system with content c at p
Put(f, p, c) == [q \in DOMAIN f \cup {p} |-> IF q = p THEN c ELSE f[q]]

----------------------------------------------------------------------------
(* Interfile header text *)

LWordCount == "%total listmode word counts"
LName == "name of data file"

\* MMRNorm::MMRNORMBYTELENGTH
MMRNORMBYTELENGTH == 323404

\* largest word count a header of the model declares in full
MaxWords == 2

\* A numeral token is one whole run of digits.  Two of them stand for digit
\* runs too long for TLC's integers: 2^62 + 1, which fits unsigned long while
\* four times it does not, and a numeral of twenty nines, which does not fit.
Big62 == "4611686018427387905"
TooBig == "99999999999999999999"
Numerals == {ToString(n) : n \in 0..MaxWords} \cup {Big62, TooBig}

\* boost::lexical_cast<unsigned long> of a numeral: ok is FALSE when it throws
\* bad_lexical_cast; the value is hi * 2^62 + lo
LexicalCast(t) ==
  IF t = TooBig THEN [ok |-> FALSE, hi |-> 0, lo |-> 0]
  ELSE IF t = Big62 THEN [ok |-> TRUE, hi |-> 1, lo |-> 1]
  ELSE [ok |-> TRUE, hi |-> 0, lo |-> CHOOSE n \in 0..MaxWords : ToString(n) = t]

\* expectedNoWords * 4 in uint64_t: 4 * (hi * 2^62 + lo) = hi * 2^64 + 4 * lo,
\* and the multiple of 2^64 is lost
TimesFour(w) == 4 * w.lo

\* the line of the header that starts at the word count label, up to "\n"
WordCountLine(h) ==
  LET rest == SubSeq(h, Find(h, <<LWordCount>>), Len(h))
      nl == Find(rest, <<"\n">>)
  IN  IF nl = 0 THEN rest ELSE SubSeq(rest, 1, nl - 1)

\* boost::regex_search(lastline, result, "[0-9]+"): the first run of digits
FirstNumeral(line) ==
  LET hits == {i \in 1..Len(line) : line[i] \in Numerals}
  IN  IF hits = {} THEN [found |-> FALSE, text |-> ""]
      ELSE [found |-> TRUE,
            text |-> line[CHOOSE i \in hits : \A j \in hits : i <= j]]

\* MMR32BitList: the declared word count of a header.
\*   label: the label is there; number: its line holds a numeral;
\*   ok, hi, lo: LexicalCast of the numeral
WordCount(h) ==
  IF ~Contains(h, <<LWordCount>>)
  THEN [label |-> FALSE, number |-> FALSE, ok |-> FALSE, hi |-> 0, lo |-> 0]
  ELSE LET m == FirstNumeral(WordCountLine(h)) IN
       IF ~m.found
       THEN [label |-> TRUE, number |-> FALSE, ok |-> FALSE, hi |-> 0, lo |-> 0]
       ELSE LET v == LexicalCast(m.text)
            IN  [label |-> TRUE, number |-> TRUE, ok |-> v.ok, hi |-> v.hi, lo |-> v.lo]

----------------------------------------------------------------------------
(* The Siemens containers *)

\* what an operation can do: its result ("true", "false", "raise" when a C++
\* exception leaves it, "fault" when it crashes), the file system and
\* _headerString after it
Out(r, f, h) == [res |-> r, fs |-> f, header |-> h]

\* the payload lengths of the model
PayloadLens == {4 * w : w \in 0..MaxWords} \cup {MMRNORMBYTELENGTH}

\* the lengths a read through a null ByteValue pointer may give
GarbageLens == PayloadLens

\* bv->GetLength(): undefined when bv is NULL, and then the read gives any
\* length (or faults, see BvFaults)
GetLength(el) == IF el.null THEN GarbageLens ELSE {el.len}

\* the operation may crash where it dereferences bv
BvFaults(el) == el.null

\* bv->WriteBuffer(outfile): the bytes written; undefined when bv is NULL
WriteBuffer(el) ==
  IF el.null THEN {Blob(n, "garbage") : n \in GarbageLens}
  ELSE {Blob(el.len, el.id)}

\* IMMR::ReadHeader: [ok, header], header being _headerString afterwards
ReadHeader(d, h) ==
  LET t1 == GetTagInfo(d.hdr1).dst IN
  IF Contains(t1, <<"SV10">>) \/ Len(t1) = 0
  THEN LET r2 == GetTagInfo(d.hdr2) IN
       IF ~r2.ok THEN [ok |-> FALSE, header |-> h]
       ELSE [ok |-> Len(r2.dst) > 0, header |-> r2.dst]
  ELSE [ok |-> TRUE, header |-> t1]

\* a variant of ExtractHeader: without the test for an existing dst
ExtractHeader_Overwrites(d, f, h, dst) ==
  LET r1 == GetTagInfo(d.hdr1)
      r2 == GetTagInfo(d.hdr2)
      sv10 == Contains(r1.dst, <<"SV10">>)
      headerString == IF sv10 THEN r2.dst ELSE r1.dst
  IN  IF ~r1.ok THEN {Out("false", f, h)}
      ELSE IF sv10 /\ ~r2.ok THEN {Out("false", f, h)}
      ELSE IF ~CanCreate(f, dst) THEN {Out("false", f, h)}
      ELSE {Out("true", Put(f, dst, TextFile(headerString)), h)}

\* IMMR::ExtractHeader
ExtractHeader(d, f, h, dst) ==
  LET r1 == GetTagInfo(d.hdr1)
      r2 == GetTagInfo(d.hdr2)
      sv10 == Contains(r1.dst, <<"SV10">>)
      headerString == IF sv10 THEN r2.dst ELSE r1.dst
  IN  IF ~r1.ok THEN {Out("false", f, h)}
      ELSE IF sv10 /\ ~r2.ok THEN {Out("false", f, h)}
      ELSE IF Exists(f, dst) THEN {Out("false", f, h)}
      ELSE IF ~CanCreate(f, dst) THEN {Out("false", f, h)}
      ELSE {Out("true", Put(f, dst, TextFile(headerString)), h)}

\* IMMR::CheckForSiemensBFFile
CheckForSiemensBFFile(f, src, numOfBytes) ==
  LET bfPath == ReplaceExtension(src, ".bf") IN
  IF ~Exists(f, bfPath) \/ f[bfPath].id \in {"dir", "rodir"} THEN "EIOERROR"
  ELSE IF f[bfPath].len # numOfBytes THEN "EBAD"
  ELSE "EGOOD"

\* boost::filesystem::copy(bfPath, dst) inside try/catch
CopyBF(f, src, dst, h) ==
  IF Exists(f, dst) \/ ~CanCreate(f, dst) THEN Out("false", f, h)
  ELSE Out("true", Put(f, dst, f[ReplaceExtension(src, ".bf")]), h)

\* std::ofstream outfile(dst); bv->WriteBuffer(outfile): the file is created
\* empty, then written
WriteInline(el, f, dst, h) ==
  IF ~CanCreate(f, dst) THEN {Out("false", f, h)}
  ELSE {Out("true", Put(f, dst, b), h) : b \in WriteBuffer(el)}
         \cup (IF BvFaults(el) THEN {Out("fault", Put(f, dst, Blob(0, "empty")), h)}
               ELSE {})

\* MMR32BitList::IsValid
MMR32BitList_IsValid(d, f, h, src) ==
  LET rh == ReadHeader(d, h)
      wc == WordCount(rh.header)
  IN  IF ~rh.ok THEN {Out("false", f, rh.header)}
      ELSE IF ~wc.label \/ ~wc.number THEN {Out("false", f, rh.header)}
      ELSE IF ~wc.ok THEN {Out("raise", f, rh.header)}
      ELSE (IF BvFaults(d.payload) THEN {Out("fault", f, rh.header)} ELSE {})
           \cup
           {Out(IF lmLength # TimesFour(wc)
                THEN IF CheckForSiemensBFFile(f, src, TimesFour(wc)) = "EGOOD"
                     THEN "true" ELSE "false"
                ELSE "true",
                f, rh.header) : lmLength \in GetLength(d.payload)}

\* MMR32BitList::ExtractData
MMR32BitList_ExtractData(d, f, h, src, dst) ==
  LET rh == ReadHeader(d, h)
      wc == WordCount(rh.header)
  IN  IF ~rh.ok THEN {Out("false", f, rh.header)}
      ELSE IF Exists(f, dst) THEN {Out("false", f, rh.header)}
      ELSE IF ~wc.label \/ ~wc.number THEN {Out("false", f, rh.header)}
      ELSE IF ~wc.ok THEN {Out("raise", f, rh.header)}
      ELSE (IF BvFaults(d.payload) THEN {Out("fault", f, rh.header)} ELSE {})
           \cup
           UNION {IF lmLength # TimesFour(wc)
                  THEN IF CheckForSiemensBFFile(f, src, TimesFour(wc)) = "EGOOD"
                       THEN {CopyBF(f, src, dst, rh.header)}
                       ELSE {Out("false", f, rh.header)}
                  ELSE WriteInline(d.payload, f, dst, rh.header)
                  : lmLength \in GetLength(d.payload)}

\* MMRSino::IsValid
MMRSino_IsValid(d, f, h, src) ==
  LET rh == ReadHeader(d, h) IN
  IF ~rh.ok THEN {Out("false", f, rh.header)}
  ELSE (IF BvFaults(d.payload) THEN {Out("fault", f, rh.header)} ELSE {})
       \cup
       {Out(IF Exists(f, ReplaceExtension(src, ".bf")) THEN "true"
            ELSE IF lmLength = 0 THEN "false" ELSE "true",
            f, rh.header) : lmLength \in GetLength(d.payload)}

\* MMRSino::ExtractData
MMRSino_ExtractData(d, f, h, src, dst) ==
  LET rh == ReadHeader(d, h) IN
  IF ~rh.ok THEN {Out("false", f, rh.header)}
  ELSE (IF BvFaults(d.payload) THEN {Out("fault", f, rh.header)} ELSE {})
       \cup
       (IF Exists(f, dst) THEN {Out("false", f, rh.header)}
        ELSE IF Exists(f, ReplaceExtension(src, ".bf"))
        THEN {CopyBF(f, src, dst, rh.header)}
        ELSE WriteInline(d.payload, f, dst, rh.header))

\* MMRNorm::IsValid
MMRNorm_IsValid(d, f, h, src) ==
  LET rh == ReadHeader(d, h) IN
  IF ~rh.ok THEN {Out("false", f, rh.header)}
  ELSE (IF BvFaults(d.payload) THEN {Out("fault", f, rh.header)} ELSE {})
       \cup
       {Out(IF lmLength # MMRNORMBYTELENGTH
            THEN IF CheckForSiemensBFFile(f, src, MMRNORMBYTELENGTH) = "EGOOD"
                 THEN "true" ELSE "false"
            ELSE "true",
            f, rh.header) : lmLength \in GetLength(d.payload)}

\* MMRNorm::ExtractData
MMRNorm_ExtractData(d, f, h, src, dst) ==
  LET rh == ReadHeader(d, h) IN
  IF ~rh.ok THEN {Out("false", f, rh.header)}
  ELSE (IF BvFaults(d.payload) THEN {Out("fault", f, rh.header)} ELSE {})
       \cup
       UNION {IF Exists(f, dst) THEN {Out("false", f, rh.header)}
              ELSE IF lmLength # MMRNORMBYTELENGTH
              THEN IF CheckForSiemensBFFile(f, src, MMRNORMBYTELENGTH) = "EGOOD"
                   THEN {CopyBF(f, src, dst, rh.header)}
                   ELSE {Out("false", f, rh.header)}
              ELSE WriteInline(d.payload, f, dst, rh.header)
              : lmLength \in GetLength(d.payload)}

----------------------------------------------------------------------------
(* The GE containers *)

\* IGEPET::ExtractBlob on tag (0023,1002), as ExtractRDF and ExtractHeader call it
ExtractBlob(d, f, h, dst) ==
  (IF BvFaults(d.rdf) THEN {Out("fault", f, h)} ELSE {})
  \cup
  (IF Exists(f, dst) THEN {Out("false", f, h)}
   ELSE WriteInline(d.rdf, f, dst, h))

----------------------------------------------------------------------------
(* The operations of IDicomExtractor, by container class *)

SiemensClasses == {"MMR32BitList", "MMRSino", "MMRNorm"}
GEClasses == {"GEPETSino", "GEPETNorm", "GEPETGeo"}

IsValid(class, d, f, h, src) ==
  CASE class = "MMR32BitList" -> MMR32BitList_IsValid(d, f, h, src)
    [] class = "MMRSino" -> MMRSino_IsValid(d, f, h, src)
    [] class = "MMRNorm" -> MMRNorm_IsValid(d, f, h, src)
    [] OTHER -> {Out("true", f, h)}

ExtractData(class, d, f, h, src, dst) ==
  CASE class = "MMR32BitList" -> MMR32BitList_ExtractData(d, f, h, src, dst)
    [] class = "MMRSino" -> MMRSino_ExtractData(d, f, h, src, dst)
    [] class = "MMRNorm" -> MMRNorm_ExtractData(d, f, h, src, dst)
    [] OTHER -> {Out("true", f, h)}

ExtractHeaderOf(class, d, f, h, dst) ==
  IF class \in SiemensClasses THEN ExtractHeader(d, f, h, dst)
  ELSE ExtractBlob(d, f, h, dst)

----------------------------------------------------------------------------
(* Rewriting an extracted header *)

LDataSet == "%data set [1]:={0,,"

\* std::getline over the text: the lines without their "\n"; text after the
\* last "\n" is a line too, an empty rest is not
RECURSIVE SplitLines(_)
SplitLines(s) ==
  IF Len(s) = 0 THEN <<>>
  ELSE LET nl == Find(s, <<"\n">>) IN
       IF nl = 0 THEN <<s>>
       ELSE <<SubSeq(s, 1, nl - 1)>> \o SplitLines(SubSeq(s, nl + 1, Len(s)))

\* one line of CleanUpLineEncoding: the first "\r\r" loses one "\r"; a line
\* without "\r" gets "\r\n", any other line "\n"
CleanLine(line) ==
  LET pos == Find(line, <<"\r", "\r">>)
      fixed == IF pos # 0
               THEN SubSeq(line, 1, pos - 1) \o SubSeq(line, pos + 1, Len(line))
               ELSE line
  IN  IF Contains(fixed, <<"\r">>) THEN fixed \o <<"\n">>
      ELSE fixed \o <<"\r", "\n">>

RECURSIVE CleanLines(_)
CleanLines(ls) ==
  IF Len(ls) = 0 THEN <<>> ELSE CleanLine(Head(ls)) \o CleanLines(Tail(ls))

\* IMMR::CleanUpLineEncoding
CleanUpLineEncoding(origStr) == CleanLines(SplitLines(origStr)) \o <<"\r", "\n">>

\* std::min(line.find("\n"), line.find("\r")): 0 when the line has neither
LineEnd(line) ==
  LET n == Find(line, <<"\n">>)
      r == Find(line, <<"\r">>)
  IN  IF n = 0 THEN r ELSE IF r = 0 THEN n ELSE IF n < r THEN n ELSE r

\* headerInfo.replace(pos, line.length(), newLine), line running from pos to
\* the end of its line
ReplaceLine(headerInfo, pos, newLine) ==
  LET rest == SubSeq(headerInfo, pos, Len(headerInfo))
      end == LineEnd(rest)
      len == IF end = 0 THEN Len(rest) ELSE end - 1
  IN  SubSeq(headerInfo, 1, pos - 1) \o newLine
        \o SubSeq(headerInfo, pos + len, Len(headerInfo))

\* IMMR::ModifyHeader that puts the new line before the old one and keeps both
IMMR_ModifyHeader_Inserts(f, src, dataFile) ==
  IF ~Exists(f, src) THEN [res |-> "raise", fs |-> f]
  ELSE LET headerInfo == f[src].text
           pos == Find(headerInfo, <<LName>>)
       IN  IF pos = 0 THEN [res |-> "raise", fs |-> f]
           ELSE IF ~CanCreate(f, src) THEN [res |-> "false", fs |-> f]
           ELSE [res |-> "true",
                 fs |-> Put(f, src, TextFile(CleanUpLineEncoding(
                          SubSeq(headerInfo, 1, pos - 1)
                            \o <<LName, ":=">> \o dataFile.name \o <<"\n">>
                            \o SubSeq(headerInfo, pos, Len(headerInfo)))))]

\* IMMR::ModifyHeader: canonical(src) throws when src is not there, substr
\* throws when the label is not found
IMMR_ModifyHeader(f, src, dataFile) ==
  IF ~Exists(f, src) THEN [res |-> "raise", fs |-> f]
  ELSE LET headerInfo == f[src].text
           pos == Find(headerInfo, <<LName>>)
       IN  IF pos = 0 THEN [res |-> "raise", fs |-> f]
           ELSE IF ~CanCreate(f, src) THEN [res |-> "false", fs |-> f]
           ELSE [res |-> "true",
                 fs |-> Put(f, src, TextFile(CleanUpLineEncoding(
                          ReplaceLine(headerInfo, pos, <<LName, ":=">> \o dataFile.name))))]

\* MMRNorm::ModifyHeader: rewrites the data set line, then runs the base
\* class and ignores what it returns
MMRNorm_ModifyHeader(f, src, dataFile) ==
  IF ~Exists(f, src) THEN [res |-> "raise", fs |-> f]
  ELSE LET headerInfo == f[src].text
           pos == Find(headerInfo, <<LDataSet>>)
       IN  IF pos = 0 THEN [res |-> "raise", fs |-> f]
           ELSE IF ~CanCreate(f, src) THEN [res |-> "false", fs |-> f]
           ELSE LET own == Put(f, src, TextFile(CleanUpLineEncoding(
                             ReplaceLine(headerInfo, pos,
                                         <<LDataSet>> \o dataFile.name \o <<"}">>))))
                    base == IMMR_ModifyHeader(own, src, dataFile)
                IN  [res |-> IF base.res = "raise" THEN "raise" ELSE "true",
                     fs |-> base.fs]

ModifyHeader(class, f, src, dataFile) ==
  CASE class \in {"MMR32BitList", "MMRSino"} -> IMMR_ModifyHeader(f, src, dataFile)
    [] class = "MMRNorm" -> MMRNorm_ModifyHeader(f, src, dataFile)
    [] OTHER -> [res |-> "true", fs |-> f]

\* GetStdFileName(srcFile, ctype) of each class: the file name, no directory
GetStdFileName(class, srcFile, ctype) ==
  LET stem == Stem(srcFile.name)
      hdr == IF ctype = "EHEADER" THEN <<".hdr">> ELSE <<>>
  IN  CASE class = "MMR32BitList" -> stem \o <<".l">> \o hdr
        [] class = "MMRSino" -> stem \o <<".s">> \o hdr
        [] class = "MMRNorm" -> stem \o <<".n">> \o hdr
        [] class = "GEPETSino" ->
             IF ctype = "EHEADER" THEN stem \o <<".sino.rdf">> ELSE <<>>
        [] class = "GEPETNorm" ->
             IF ctype = "EHEADER" THEN stem \o <<".norm.rdf">> ELSE <<>>
        [] class = "GEPETGeo" ->
             IF ctype = "EHEADER" THEN stem \o <<"geo.rdf">> ELSE <<>>

----------------------------------------------------------------------------
(* Values shared by the specifications *)

NoFile == [len |-> 0, id |-> "none", text |-> <<>>]

NoPath == Path("", <<>>)

\* ret: the operation, its destination, what was at the destination before,
\* the kind a factory found, the result, and what was reported
NoRet ==
  [op |-> "none", dst |-> NoPath, was |-> NoFile, kind |-> "", res |-> "", note |-> ""]

Ret(op, dst, was, res) ==
  [op |-> op, dst |-> dst, was |-> was, kind |-> "", res |-> res, note |-> ""]

\* a data set whose tags all hold nothing
EmptyDs ==
  [manufacturer |-> AbsentEl(<<"Loaded:">>), model |-> AbsentEl(<<"Loaded:">>),
   imageType |-> AbsentEl(<<"Loaded:">>), rawDataType |-> AbsentEl(<<"Loaded:">>),
   sinoType |-> AbsentEl(<<"Loaded:">>), calType |-> AbsentEl(<<"Loaded:">>),
   hdr1 |-> AbsentEl(<<"Loaded:">>), hdr2 |-> AbsentEl(<<"Loaded:">>),
   payload |-> AbsentEl(<<"Loaded:">>), rdf |-> AbsentEl(<<"Loaded:">>)]

NoOpt == [tool |-> "none", noupdate |-> FALSE, prefix |-> FALSE, outdir |-> "same"]

----------------------------------------------------------------------------
(* SpecClassify: the two factories applied to every data set of the bounded *)
(* tag values.                                                              *)

\* one value of the multi-valued image type tag (0008,0008)
ImageValues ==
  {<<o, "PRIMARY\\", k>> :
     o \in {"ORIGINAL\\", "DERIVED\\"},
     k \in {"PET_LISTMODE", "PET_EM_SINO", "PET_NORM", "PET_OTHER"}}

RECURSIVE Flatten(_)
Flatten(ss) == IF Len(ss) = 0 THEN <<>> ELSE Head(ss) \o Flatten(Tail(ss))

ImageTypes == {Flatten(vs) : vs \in SeqsUpTo(ImageValues, MaxImageValues)}

ManufacturerEls ==
  {TextEl(<<"SIEMENS">>), TextEl(<<"GE MEDICAL SYSTEMS">>), TextEl(<<"x">>),
   AbsentEl(<<"Loaded:">>), OomEl(<<"SIEMENS">>)}

ModelEls ==
  {TextEl(<<"Biograph_mMR">>), TextEl(<<"x">>), AbsentEl(<<"Loaded:">>),
   OomEl(<<"Biograph_mMR">>)}

ImageTypeEls ==
  {TextEl(t) : t \in ImageTypes} \cup {AbsentEl(<<"junk">>), OomEl(PatList)}

\* values of the GE raw data type code (0021,1001)
CodeEls ==
  {TextEl(t) : t \in SeqsUpTo({"1", "3", "4", "5", "7"}, MaxCodeLen)}
    \cup {AbsentEl(<<"Loaded:">>), OomEl(<<"3">>)}

\* values of the GE sinogram type (0009,1019) and calibration type (0017,1006)
SubEls ==
  {TextEl(t) : t \in SeqsUpTo({"0", "2", "3", "5"}, MaxCodeLen)}
    \cup {AbsentEl(<<"Loaded:">>), OomEl(<<"0">>)}

SiemensDataSet(m, n, i) ==
  [EmptyDs EXCEPT !.manufacturer = m, !.model = n, !.imageType = i]

GEDataSet(m, r, s, c) ==
  [EmptyDs EXCEPT !.manufacturer = m, !.rawDataType = r, !.sinoType = s,
                  !.calType = c]

\* the file is a Siemens data set of any manufacturer, model and image type,
\* or a GE data set of any code with any sinogram type or any calibration type
InitClassify ==
  /\ file \in [state : {"file"}, dicom : BOOLEAN, ctorOK : BOOLEAN]
  /\ \/ \E m \in ManufacturerEls, n \in ModelEls, i \in ImageTypeEls :
          ds = SiemensDataSet(m, n, i)
     \/ \E m \in {TextEl(<<"GE MEDICAL SYSTEMS">>), TextEl(<<"x">>)},
           r \in CodeEls, s \in SubEls :
          ds = GEDataSet(m, r, s, TextEl(<<"2">>))
     \/ \E r \in CodeEls, c \in SubEls :
          ds = GEDataSet(TextEl(<<"GE MEDICAL SYSTEMS">>), r, TextEl(<<"0">>), c)
  /\ fs = <<>>
  /\ fs0 = <<>>
  /\ reader = "nullptr"
  /\ header = <<>>
  /\ pc = "classify"
  /\ ret = NoRet
  /\ log = {}
  /\ trace = <<>>
  /\ opt = NoOpt
  /\ exit = "running"

\* Siemens_factory->Create(srcPath)
SiemensCreate ==
  /\ pc = "classify"
  /\ ret' = [op |-> "SiemensCreate", dst |-> NoPath, was |-> NoFile,
             kind |-> SiemensGetFileType(file, ds),
             res |-> SiemensCreate_ptr(file, ds), note |-> ""]
  /\ pc' = "classified"
  /\ UNCHANGED <<file, ds, fs, fs0, reader, header, log, trace, opt, exit>>

\* GE_factory->Create(srcPath)
GECreate ==
  /\ pc = "classify"
  /\ ret' = [op |-> "GECreate", dst |-> NoPath, was |-> NoFile,
             kind |-> GEGetFileType(file, ds),
             res |-> GECreate_ptr(file, ds),
             note |-> IF GEReportsWCC(file, ds) THEN "unsupported" ELSE ""]
  /\ pc' = "classified"
  /\ UNCHANGED <<file, ds, fs, fs0, reader, header, log, trace, opt, exit>>

NextClassify == SiemensCreate \/ GECreate

SpecClassify == InitClassify /\ [][NextClassify]_vars

----------------------------------------------------------------------------
(* Spec: a caller holds one container and calls IsValid, ExtractData and    *)
(* ExtractHeader on it, in any order, any number of times.                 *)

Src == Path("in", <<"a", ".dcm">>)
Sidecar == ReplaceExtension(Src, ".bf")
Old == Path("out", <<"old">>)
Fresh == Path("out", <<"a", ".l">>)
Locked == Path("ro", <<"a", ".l">>)

\* the destinations the caller passes
Dsts == {Old, Fresh, Locked}

NameLine == <<LName, ":=", "old", ".l", "\r", "\n">>
FillerLine == <<"x", "\r", "\n">>

\* lines that carry the word count label
WordCountLines ==
  {<<LWordCount, ":=", n, "\r", "\n">> : n \in Numerals}
    \cup {<<LWordCount, ":=", "\r", "\n">>,
          <<LWordCount, ":=", "1">>,
          <<LWordCount, ":=", "\n", "1", "\n">>}

ListHeaders ==
  {pre \o l : pre \in {<<>>, NameLine}, l \in WordCountLines \cup {<<>>, FillerLine}}

OneWord == <<LWordCount, ":=", "1", "\r", "\n">>

ListHdr1Els ==
  {TextEl(t) : t \in ListHeaders}
    \cup {AbsentEl(<<"Loaded:">>), AbsentEl(<<"junk">>), OomEl(OneWord),
          TextEl(<<"SV10">> \o OneWord)}

DataSetLine == <<LDataSet, "old", ".n", "}", "\r", "\n">>

PlainHdr1Els ==
  {TextEl(NameLine \o FillerLine), TextEl(DataSetLine \o NameLine),
   AbsentEl(<<"Loaded:">>), TextEl(<<"SV10">>)}

Hdr2Els == {AbsentEl(<<"Loaded:">>), TextEl(NameLine \o OneWord), OomEl(OneWord)}

PayloadEls == {AbsentEl(<<"Loaded:">>)} \cup {BytesEl(n) : n \in PayloadLens}

ContainerDataSets(class) ==
  IF class = "MMR32BitList"
  THEN {[EmptyDs EXCEPT !.hdr1 = h1, !.hdr2 = h2, !.payload = b] :
          h1 \in ListHdr1Els, h2 \in Hdr2Els, b \in PayloadEls}
  ELSE IF class \in SiemensClasses
  THEN {[EmptyDs EXCEPT !.hdr1 = h1, !.hdr2 = h2, !.payload = b] :
          h1 \in PlainHdr1Els, h2 \in Hdr2Els, b \in PayloadEls}
  ELSE {[EmptyDs EXCEPT !.rdf = b] : b \in PayloadEls}

\* the directories, the input and one file that is already in the output
\* directory
BaseFs ==
  [p \in {Path("in", <<>>), Path("out", <<>>), Path("ro", <<>>), Src, Old} |->
     IF p = Src THEN Blob(1, "dicom")
     ELSE IF p = Old THEN Blob(4, "old")
     ELSE IF p.dir = "ro" THEN ReadOnlyDirectory
     ELSE Directory]

SidecarFiles == {Blob(n, "bf") : n \in PayloadLens}

InitialFileSystems == {BaseFs} \cup {Put(BaseFs, Sidecar, b) : b \in SidecarFiles}

Init ==
  /\ file = [state |-> "file", dicom |-> TRUE, ctorOK |-> TRUE]
  /\ reader \in SiemensClasses \cup GEClasses
  /\ ds \in ContainerDataSets(reader)
  /\ fs \in InitialFileSystems
  /\ fs0 = fs
  /\ header = <<>>
  /\ pc = "lib"
  /\ ret = NoRet
  /\ log = {}
  /\ trace = <<>>
  /\ opt = NoOpt
  /\ exit = "running"

FileAt(f, p) == IF Exists(f, p) THEN f[p] ELSE NoFile

\* the caller goes on unless the operation crashed
AfterCall(o) == IF o.res = "fault" THEN "crashed" ELSE "lib"

\* reader->IsValid()
CallIsValid ==
  /\ pc = "lib"
  /\ \E o \in IsValid(reader, ds, fs, header, Src) :
       /\ ret' = Ret("IsValid", NoPath, NoFile, o.res)
       /\ fs' = o.fs
       /\ header' = o.header
       /\ pc' = AfterCall(o)
  /\ UNCHANGED <<file, ds, fs0, reader, log, trace, opt, exit>>

\* reader->ExtractData(dst)
CallExtractData ==
  /\ pc = "lib"
  /\ \E dst \in Dsts :
       \E o \in ExtractData(reader, ds, fs, header, Src, dst) :
         /\ ret' = Ret("ExtractData", dst, FileAt(fs, dst), o.res)
         /\ fs' = o.fs
         /\ header' = o.header
         /\ pc' = AfterCall(o)
  /\ UNCHANGED <<file, ds, fs0, reader, log, trace, opt, exit>>

\* reader->ExtractHeader(dst)
CallExtractHeader ==
  /\ pc = "lib"
  /\ \E dst \in Dsts :
       \E o \in ExtractHeaderOf(reader, ds, fs, header, dst) :
         /\ ret' = Ret("ExtractHeader", dst, FileAt(fs, dst), o.res)
         /\ fs' = o.fs
         /\ header' = o.header
         /\ pc' = AfterCall(o)
  /\ UNCHANGED <<file, ds, fs0, reader, log, trace, opt, exit>>

Next == CallIsValid \/ CallExtractData \/ CallExtractHeader

Spec == Init /\ [][Next]_vars

----------------------------------------------------------------------------
(* SpecCLI: one run of nm_validate or of nm_extract on the input path Src.  *)
(* pc is the position in main; exit is "running", the exit status "0" or    *)
(* "1", "abort" when an exception leaves main, "crash" on a fault.          *)

Siemens == TextEl(<<"SIEMENS">>)
GE == TextEl(<<"GE MEDICAL SYSTEMS">>)

SiemensTags(pattern) ==
  [EmptyDs EXCEPT !.manufacturer = Siemens, !.model = TextEl(<<"Biograph_mMR">>),
                  !.imageType = TextEl(pattern)]

GETags(code, sino, cal) ==
  [EmptyDs EXCEPT !.manufacturer = GE, !.rawDataType = TextEl(<<code>>),
                  !.sinoType = TextEl(<<sino>>), !.calType = TextEl(<<cal>>)]

CliListHdr1Els ==
  {TextEl(NameLine \o <<LWordCount, ":=", n, "\r", "\n">>) : n \in Numerals}
    \cup {TextEl(OneWord), AbsentEl(<<"Loaded:">>), TextEl(<<"SV10">> \o OneWord)}

CliHdr2Els == {AbsentEl(<<"Loaded:">>), TextEl(NameLine \o OneWord)}

WithContent(tags, hdr1s) ==
  {[tags EXCEPT !.hdr1 = h1, !.hdr2 = h2, !.payload = b] :
     h1 \in hdr1s, h2 \in CliHdr2Els, b \in PayloadEls}

\* the data sets of the runs: the three Siemens kinds, a Siemens file of no
\* known kind, GE files, and a file of another manufacturer
CliDataSets ==
  WithContent(SiemensTags(PatList), CliListHdr1Els)
    \cup WithContent(SiemensTags(PatSino), PlainHdr1Els)
    \cup WithContent(SiemensTags(PatNorm), PlainHdr1Els)
    \cup {SiemensTags(<<"DERIVED\\", "PRIMARY\\", "PET_OTHER">>)}
    \cup {[GETags(c[1], c[2], c[3]) EXCEPT !.rdf = b] :
            c \in {<<"3", "0", "0">>, <<"3", "5", "0">>, <<"4", "0", "2">>,
                   <<"5", "0", "3">>, <<"7", "0", "0">>},
            b \in PayloadEls}
    \cup {[EmptyDs EXCEPT !.manufacturer = TextEl(<<"x">>), !.model = TextEl(<<"x">>)]}

\* the input path: nothing there, a directory, a file that is not DICOM, a
\* DICOM file, a DICOM file that cannot be read a second time
CliFiles ==
  {[state |-> "missing", dicom |-> FALSE, ctorOK |-> FALSE],
   [state |-> "dir", dicom |-> FALSE, ctorOK |-> FALSE],
   [state |-> "file", dicom |-> FALSE, ctorOK |-> FALSE],
   [state |-> "file", dicom |-> TRUE, ctorOK |-> TRUE],
   [state |-> "file", dicom |-> TRUE, ctorOK |-> FALSE]}

CliOptions ==
  {[NoOpt EXCEPT !.tool = "nm_validate"]}
    \cup [tool : {"nm_extract"}, noupdate : BOOLEAN, prefix : BOOLEAN,
          outdir : {"same", "out", "new", "ro/new"}]

\* a header file that an earlier run left in the output directory
StaleHeader == Path("out", <<"a", ".l", ".hdr">>)

CliFileSystems(f) ==
  IF f.state = "missing"
  THEN {[p \in DOMAIN BaseFs \ {Src} |-> BaseFs[p]]}
  ELSE IF f.state = "dir" THEN {Put(BaseFs, Src, Directory)}
  ELSE IF f.dicom
       THEN InitialFileSystems \cup {Put(BaseFs, StaleHeader, Blob(4, "old"))}
       ELSE {BaseFs}

InitCLI ==
  /\ opt \in CliOptions
  /\ file \in CliFiles
  /\ ds \in IF file.dicom THEN CliDataSets ELSE {EmptyDs}
  /\ fs \in CliFileSystems(file)
  /\ fs0 = fs
  /\ reader = "nullptr"
  /\ header = <<>>
  /\ pc = "input"
  /\ ret = NoRet
  /\ log = {}
  /\ trace = <<>>
  /\ exit = "running"

\* how main ends after an operation gave res: LOG(ERROR) and EXIT_FAILURE on
\* false; an exception or a fault ends the process with nothing logged
Failed(res, message) ==
  /\ log' = IF res = "false" THEN log \cup {message} ELSE log
  /\ exit' = CASE res = "false" -> "1" [] res = "raise" -> "abort" [] OTHER -> "crash"
  /\ pc' = "done"

\* fs::exists(srcPath), fs::is_regular_file(srcPath)
CheckInput ==
  /\ pc = "input"
  /\ IF ~Exists(fs, Src)
     THEN Failed("false", "ERROR: input path does not exist")
     ELSE IF fs[Src].id \in {"dir", "rodir"}
     THEN Failed("false", "ERROR: does not appear to be a file")
     ELSE pc' = "siemens" /\ UNCHANGED <<log, exit>>
  /\ UNCHANGED <<file, ds, fs, fs0, reader, header, ret, trace, opt>>

\* a variant of TrySiemens: without the try block, so that an exception of
\* the Siemens factory ends the run
TrySiemens_Uncaught ==
  /\ pc = "siemens"
  /\ LET r == SiemensCreate_ptr(file, ds) IN
       /\ trace' = Append(trace, [factory |-> "Siemens", res |-> r])
       /\ IF r = "raise"
          THEN Failed("raise", "") /\ UNCHANGED reader
          ELSE reader' = r /\ pc' = "ge" /\ UNCHANGED <<log, exit>>
  /\ UNCHANGED <<file, ds, fs, fs0, header, ret, opt>>

\* try { reader = Siemens_factory->Create(srcPath); } catch (...) { LOG(INFO) }
TrySiemens ==
  /\ pc = "siemens"
  /\ LET r == SiemensCreate_ptr(file, ds) IN
       /\ trace' = Append(trace, [factory |-> "Siemens", res |-> r])
       /\ reader' = IF r = "raise" THEN "nullptr" ELSE r
       /\ log' = IF r = "raise" THEN log \cup {"INFO: not a Siemens file"} ELSE log
  /\ pc' = "ge"
  /\ UNCHANGED <<file, ds, fs, fs0, header, ret, opt, exit>>

\* if (reader == nullptr) reader = GE_factory->Create(srcPath); outside any try
TryGE ==
  /\ pc = "ge"
  /\ IF reader = "nullptr"
     THEN LET r == GECreate_ptr(file, ds) IN
            /\ trace' = Append(trace, [factory |-> "GE", res |-> r])
            /\ IF r = "raise"
               THEN Failed("raise", "") /\ UNCHANGED reader
               ELSE reader' = r /\ pc' = "reader" /\ UNCHANGED <<log, exit>>
     ELSE pc' = "reader" /\ UNCHANGED <<trace, reader, log, exit>>
  /\ UNCHANGED <<file, ds, fs, fs0, header, ret, opt>>

\* if (reader == nullptr) { LOG(ERROR); return EXIT_FAILURE; }
CheckReader ==
  /\ pc = "reader"
  /\ IF reader = "nullptr"
     THEN Failed("false", "ERROR: not recognised")
     ELSE /\ pc' = IF opt.tool = "nm_validate" THEN "validate" ELSE "outdir"
          /\ UNCHANGED <<log, exit>>
  /\ UNCHANGED <<file, ds, fs, fs0, reader, header, ret, trace, opt>>

\* nm_validate: if (!reader->IsValid()) { LOG(ERROR); return EXIT_FAILURE; }
\* LOG(INFO) "VALID"; return EXIT_SUCCESS;
Validate ==
  /\ pc = "validate"
  /\ \E o \in IsValid(reader, ds, fs, header, Src) :
       /\ ret' = Ret("IsValid", NoPath, NoFile, o.res)
       /\ fs' = o.fs
       /\ header' = o.header
       /\ IF o.res = "true"
          THEN /\ log' = log \cup {"INFO: file appears to be VALID"}
               /\ exit' = "0"
               /\ pc' = "done"
          ELSE Failed(o.res, "ERROR: file appears to be INVALID")
  /\ UNCHANGED <<file, ds, fs0, reader, trace, opt>>

\* nm_extract: the output directory, that of the input when none is given
OutDstDir == IF opt.outdir = "same" THEN Src.dir ELSE opt.outdir

\* the directories fs::create_directories can make
CreatableDirs == {"new"}

\* nm_extract: if (!fs::exists(outDstDir)) fs::create_directories(outDstDir);
MakeOutputDir ==
  /\ pc = "outdir"
  /\ LET d == Path(OutDstDir, <<>>) IN
       IF Exists(fs, d) THEN pc' = "data" /\ UNCHANGED <<fs, log, exit>>
       ELSE IF OutDstDir \in CreatableDirs
       THEN fs' = Put(fs, d, Directory) /\ pc' = "data" /\ UNCHANGED <<log, exit>>
       ELSE /\ log' = log \cup {"INFO: unable to create output directory"}
            /\ exit' = "1"
            /\ pc' = "done"
            /\ UNCHANGED fs
  /\ UNCHANGED <<file, ds, fs0, reader, header, ret, trace, opt>>

\* nm_extract: outFilePath; with --prefix, srcPath.remove_filename() / prefix
\* followed by the extension of what is left of srcPath, which has none
OutFilePath == IF opt.prefix THEN Path(Src.dir, <<"pre">>) ELSE Src

\* nm_extract: dstPath = outDstDir / GetStdFileName(outFilePath, ctype)
DstPath(ctype) == Path(OutDstDir, GetStdFileName(reader, OutFilePath, ctype))

\* nm_extract: if (reader->ExtractData(dstPath)) ... else return EXIT_FAILURE
ExtractDataStep ==
  /\ pc = "data"
  /\ \E o \in ExtractData(reader, ds, fs, header, Src, DstPath("ERAWDATA")) :
       /\ ret' = Ret("ExtractData", DstPath("ERAWDATA"),
                     FileAt(fs, DstPath("ERAWDATA")), o.res)
       /\ fs' = o.fs
       /\ header' = o.header
       /\ IF o.res = "true"
          THEN /\ log' = log \cup {"INFO: data written successfully"}
               /\ pc' = "header"
               /\ UNCHANGED exit
          ELSE Failed(o.res, "ERROR: data extraction failed")
  /\ UNCHANGED <<file, ds, fs0, reader, trace, opt>>

\* nm_extract: if (reader->ExtractHeader(dstPath)) ... else return EXIT_FAILURE
ExtractHeaderStep ==
  /\ pc = "header"
  /\ \E o \in ExtractHeaderOf(reader, ds, fs, header, DstPath("EHEADER")) :
       /\ ret' = Ret("ExtractHeader", DstPath("EHEADER"),
                     FileAt(fs, DstPath("EHEADER")), o.res)
       /\ fs' = o.fs
       /\ header' = o.header
       /\ IF o.res = "true"
          THEN /\ log' = log \cup {"INFO: header written successfully"}
               /\ pc' = "update"
               /\ UNCHANGED exit
          ELSE Failed(o.res, "ERROR: header extraction failed")
  /\ UNCHANGED <<file, ds, fs0, reader, trace, opt>>

\* nm_extract: if (!vm.count("noupdate")) reader->ModifyHeader(header, data);
\* return EXIT_SUCCESS;
UpdateHeader ==
  /\ pc = "update"
  /\ IF opt.noupdate
     THEN exit' = "0" /\ pc' = "done" /\ UNCHANGED <<fs, ret, log>>
     ELSE LET m == ModifyHeader(reader, fs, DstPath("EHEADER"), DstPath("ERAWDATA")) IN
            /\ ret' = Ret("ModifyHeader", DstPath("EHEADER"),
                          FileAt(fs, DstPath("EHEADER")), m.res)
            /\ fs' = m.fs
            /\ IF m.res = "true"
               THEN /\ log' = log \cup {"INFO: header updated successfully"}
                    /\ exit' = "0"
                    /\ pc' = "done"
               ELSE Failed(m.res, "ERROR: header update failed")
  /\ UNCHANGED <<file, ds, fs0, reader, header, trace, opt>>

NextCLI ==
  \/ CheckInput
  \/ TrySiemens
  \/ TryGE
  \/ CheckReader
  \/ Validate
  \/ MakeOutputDir
  \/ ExtractDataStep
  \/ ExtractHeaderStep
  \/ UpdateHeader

SpecCLI == InitCLI /\ [][NextCLI]_vars

----------------------------------------------------------------------------
(* SpecHeader: either a header file that has been extracted is rewritten   *)
(* by ModifyHeader, with any data file path, or CleanUpLineEncoding is      *)
(* applied to a header string; trace records each application and the text  *)
(* it was given and the text it left.                                       *)

\* longest header text, in tokens, and the number of applications
MaxHeaderLen == 4
MaxApplications == 2

HeaderAlphabet == {LName, LDataSet, "x", "\r", "\n"}

HdrFile == Path("out", <<"a", ".l", ".hdr">>)

\* the data file paths handed to ModifyHeader
DataFiles == {Path("out", <<"a", ".l">>), Path("in", <<"b", ".l">>)}

InitHeader ==
  /\ \E t \in SeqsUpTo(HeaderAlphabet, MaxHeaderLen) :
       /\ header = t
       /\ \/ /\ pc = "rewrite"
             /\ fs = Put(BaseFs, HdrFile, TextFile(t))
             /\ reader \in {"MMR32BitList", "MMRNorm"}
          \/ /\ pc = "cleanup"
             /\ fs = BaseFs
             /\ reader = "none"
  /\ fs0 = fs
  /\ file = [state |-> "file", dicom |-> TRUE, ctorOK |-> TRUE]
  /\ ds = EmptyDs
  /\ ret = NoRet
  /\ log = {}
  /\ trace = <<>>
  /\ opt = NoOpt
  /\ exit = "running"

\* reader->ModifyHeader(HdrFile, dataFile); an exception ends the caller
CallModifyHeader ==
  /\ pc = "rewrite"
  /\ Len(trace) < MaxApplications
  /\ \E dataFile \in DataFiles :
       LET m == ModifyHeader(reader, fs, HdrFile, dataFile) IN
         /\ ret' = Ret("ModifyHeader", dataFile, FileAt(fs, HdrFile), m.res)
         /\ fs' = m.fs
         /\ trace' = Append(trace, [op |-> "ModifyHeader", res |-> m.res,
                                    before |-> fs[HdrFile].text,
                                    after |-> m.fs[HdrFile].text,
                                    dataFile |-> dataFile])
         /\ pc' = IF m.res = "raise" THEN "done" ELSE "rewrite"
  /\ UNCHANGED <<file, ds, fs0, reader, header, log, opt, exit>>

\* header = CleanUpLineEncoding(header)
CallCleanUpLineEncoding ==
  /\ pc = "cleanup"
  /\ Len(trace) < MaxApplications
  /\ header' = CleanUpLineEncoding(header)
  /\ ret' = Ret("CleanUpLineEncoding", NoPath, NoFile, "true")
  /\ trace' = Append(trace, [op |-> "CleanUpLineEncoding", res |-> "true",
                             before |-> header,
                             after |-> CleanUpLineEncoding(header),
                             dataFile |-> NoPath])
  /\ UNCHANGED <<file, ds, fs, fs0, reader, log, pc, opt, exit>>

NextHeader == CallModifyHeader \/ CallCleanUpLineEncoding

SpecHeader == InitHeader /\ [][NextHeader]_vars

----------------------------------------------------------------------------
(* SpecPTD: Validate.hpp ReadAsSiemensPTD on a raw file.  A file is the     *)
(* sequence of its bytes; the marker is four bytes, every other string the  *)
(* function looks for is one token.  Offsets count from 0.                  *)

\* the number of positions the backward scan visits: 50000 in the source,
\* scaled down so that files stay short
ScanWindow == 12

PREAMBLE == 128

DICM == <<"D", "I", "C", "M">>
LInterfile == "!INTERFILE"
LComment == "%comment"

\* tmpStr == target.  While headerData holds fewer than four characters the
\* comparison reads past its end; what it reads there can be anything, so a
\* shorter headerData matches when it is a prefix of the target.  (The first
\* character read is the EOF character, so no such prefix ever arises.)
StartsWithTarget(headerData) ==
  LET n == IF Len(headerData) < 4 THEN Len(headerData) ELSE 4
  IN  SubSeq(headerData, 1, n) = SubSeq(DICM, 1, n)

\* the loop for (c = endOfFile; c > endOfFile - 50000; c--): fseeko64 to c
\* fails for a negative c and leaves the stream where it is (filePos); fgetc
\* returns EOF at or after the end of the file
RECURSIVE ScanBack(_, _, _, _, _)
ScanBack(bytes, c, filePos, headerData, examined) ==
  IF c <= Len(bytes) - ScanWindow
  THEN [pos |-> -1, headerData |-> headerData, examined |-> examined]
  ELSE LET at == IF c >= 0 THEN c ELSE filePos
           ch == IF at < Len(bytes) THEN bytes[at + 1] ELSE "EOF"
           next == IF at < Len(bytes) THEN at + 1 ELSE at
           hd == <<ch>> \o headerData
       IN  IF StartsWithTarget(hd)
           THEN [pos |-> c, headerData |-> hd, examined |-> examined + 1]
           ELSE ScanBack(bytes, c - 1, next, hd, examined + 1)

\* ReadAsSiemensPTD after the scan: the status, "raise" when std::out_of_range
\* or bad_lexical_cast leaves the function
CheckPTD(dicomHeaderPos, interfileHeader) ==
  IF dicomHeaderPos = -1 THEN "EBAD"
  ELSE IF ~Contains(interfileHeader, <<LInterfile>>) THEN "EBAD"
  ELSE IF ~Contains(interfileHeader, <<LComment>>) THEN "EBAD"
  ELSE LET inPoint == Find(interfileHeader, <<LInterfile>>) - 1
           at == Find(interfileHeader, <<LComment>>)
           rest == SubSeq(interfileHeader, at, Len(interfileHeader))
           nl == Find(rest, <<"\n">>)
           lastline == IF nl = 0 THEN rest ELSE SubSeq(rest, 1, nl - 1)
           cut == SubSeq(interfileHeader, 1, at - 1) \o lastline
       IN  IF inPoint > Len(cut) THEN "raise"
           ELSE LET wc == WordCount(SubSeq(cut, inPoint + 1, Len(cut))) IN
                IF ~wc.label \/ ~wc.number THEN "EBAD"
                ELSE IF ~wc.ok THEN "raise"
                ELSE IF (dicomHeaderPos - PREAMBLE) % 4 # 0 THEN "EBAD"
                \* below PREAMBLE the quotient is negative and, as uint64_t,
                \* at least 2^63: no count of the model is that large
                ELSE IF dicomHeaderPos >= PREAMBLE /\ wc.hi = 0
                          /\ wc.lo = (dicomHeaderPos - PREAMBLE) \div 4
                     THEN "EGOOD"
                ELSE "EBAD"

\* ReadAsSiemensPTD(src): [res, pos, headerData, examined]
ReadAsSiemensPTD(f, src) ==
  IF ~Exists(f, src)
  THEN [res |-> "EIOERROR", pos |-> -1, headerData |-> <<>>, examined |-> 0]
  ELSE LET bytes == f[src].text
           s == ScanBack(bytes, Len(bytes), Len(bytes), <<>>, 0)
       IN  [res |-> CheckPTD(s.pos, s.headerData), pos |-> s.pos,
            headerData |-> s.headerData, examined |-> s.examined]

PtdSrc == Path("in", <<"a", ".ptd">>)

Fill(n) == [i \in 1..n |-> "x"]

\* what follows the marker: Interfile headers with each word count, headers
\* that lack a part or have the parts in another order, and headers followed
\* by enough bytes to put the marker at the edge of the window and beyond it
PtdBodies ==
  {<<LInterfile, LWordCount, n, "\n", LComment>> : n \in Numerals}
    \cup {<<LInterfile, LWordCount, "1", "\n", LComment>> \o Fill(k) :
            k \in {ScanWindow - 10, ScanWindow - 9, ScanWindow - 8}}
    \cup {<<>>,
          <<LWordCount, "1", "\n", LComment>>,
          <<LInterfile, LWordCount, "1", "\n">>,
          <<LInterfile, "\n", LComment>>,
          <<LInterfile, LWordCount, "\n", LComment>>,
          <<LInterfile, LComment, "\n", LWordCount, "1", "\n">>,
          <<LComment, LInterfile, LWordCount, "1", "\n">>,
          <<LComment, "\n", "x", LInterfile, LWordCount, "1", "\n">>}

\* the bytes where the marker would be: the marker, nothing, other bytes, and
\* the marker's letters in reverse
PtdMarks == {DICM, <<>>, Fill(4), <<"M", "C", "I", "D">>}

\* the lengths of what precedes the marker: list-mode words and the preamble,
\* and shorter ones
PtdLeads == {0, 1, PREAMBLE - 4, PREAMBLE, PREAMBLE + 2, PREAMBLE + 4, PREAMBLE + 8}

InitPTD ==
  /\ \/ \E lead \in PtdLeads, mark \in PtdMarks, body \in PtdBodies :
          fs = Put(BaseFs, PtdSrc, TextFile(Fill(lead) \o mark \o body))
     \/ fs = BaseFs
  /\ fs0 = fs
  /\ file = [state |-> "file", dicom |-> FALSE, ctorOK |-> FALSE]
  /\ ds = EmptyDs
  /\ reader = "nullptr"
  /\ header = <<>>
  /\ pc = "ptd"
  /\ ret = NoRet
  /\ log = {}
  /\ trace = <<>>
  /\ opt = NoOpt
  /\ exit = "running"

\* fileStatus = nmtools::ReadAsSiemensPTD( srcPath )
CallReadAsSiemensPTD ==
  /\ pc = "ptd"
  /\ LET r == ReadAsSiemensPTD(fs, PtdSrc) IN
       /\ ret' = Ret("ReadAsSiemensPTD", PtdSrc, FileAt(fs, PtdSrc), r.res)
       /\ header' = r.headerData
       /\ trace' = <<[pos |-> r.pos, examined |-> r.examined]>>
  /\ pc' = "done"
  /\ UNCHANGED <<file, ds, fs, fs0, reader, log, opt, exit>>

NextPTD == CallReadAsSiemensPTD

SpecPTD == InitPTD /\ [][NextPTD]_vars

----------------------------------------------------------------------------
(* SpecOrient: Common.hpp SetDesiredCoordinateOrientation on an orientation *)
(* code, a sequence of characters.  header holds the code; trace holds the   *)
(* value of finalOrientation before the call and, after it, the value the    *)
(* call leaves.                                                              *)

\* longest orientation code
MaxOrientLen == 4

OrientChars == {"R", "L", "P", "A", "I", "S", "r", "X"}

\* toupper
ToUpper(c) == IF c = "r" THEN "R" ELSE c

\* GetOrientationCode: the value of the itk::SpatialOrientation coordinate
\* term, ITK_COORDINATE_UNKNOWN being 0
GetOrientationCode(c) ==
  CASE ToUpper(c) = "R" -> 2
    [] ToUpper(c) = "L" -> 3
    [] ToUpper(c) = "P" -> 4
    [] ToUpper(c) = "A" -> 5
    [] ToUpper(c) = "I" -> 8
    [] ToUpper(c) = "S" -> 9
    [] OTHER -> 0

\* (v0 << PrimaryMinor) + (v1 << SecondaryMinor) + (v2 << TertiaryMinor), the
\* shifts being 0, 8 and 16
OrientationFlags(coordVals) ==
  coordVals[1] + coordVals[2] * 256 + coordVals[3] * 65536

\* SetDesiredCoordinateOrientation(target, finalOrientation):
\* [res, finalOrientation]
SetDesiredCoordinateOrientation(target, finalOrientation) ==
  IF Len(target) # 3 THEN [res |-> "false", finalOrientation |-> finalOrientation]
  ELSE LET coordVals == [i \in 1..3 |-> GetOrientationCode(target[i])] IN
       IF \E i \in 1..3 : coordVals[i] = 0
       THEN [res |-> "false", finalOrientation |-> finalOrientation]
       \* sort, unique, erase: as many values as there are distinct ones
       ELSE IF Cardinality({coordVals[i] : i \in 1..3}) # 3
       THEN [res |-> "false", finalOrientation |-> finalOrientation]
       ELSE [res |-> "true", finalOrientation |-> OrientationFlags(coordVals)]

\* finalOrientation before the call: ITK_COORDINATE_ORIENTATION_INVALID, or
\* the flags of an earlier code
EarlierOrientations == {0, OrientationFlags(<<3, 4, 9>>)}

InitOrient ==
  /\ header \in SeqsUpTo(OrientChars, MaxOrientLen)
  /\ \E o \in EarlierOrientations : trace = <<[finalOrientation |-> o]>>
  /\ fs = BaseFs
  /\ fs0 = fs
  /\ file = [state |-> "file", dicom |-> TRUE, ctorOK |-> TRUE]
  /\ ds = EmptyDs
  /\ reader = "nullptr"
  /\ pc = "orient"
  /\ ret = NoRet
  /\ log = {}
  /\ opt = NoOpt
  /\ exit = "running"

\* nmtools::SetDesiredCoordinateOrientation(orientationCode, _outputOrientation)
CallSetDesiredCoordinateOrientation ==
  /\ pc = "orient"
  /\ LET r == SetDesiredCoordinateOrientation(header, trace[1].finalOrientation) IN
       /\ ret' = Ret("SetDesiredCoordinateOrientation", NoPath, NoFile, r.res)
       /\ trace' = Append(trace, [finalOrientation |-> r.finalOrientation])
  /\ pc' = "done"
  /\ UNCHANGED <<file, ds, fs, fs0, reader, header, log, opt, exit>>

NextOrient == CallSetDesiredCoordinateOrientation

SpecOrient == InitOrient /\ [][NextOrient]_vars

----------------------------------------------------------------------------
(* Claims about classification, checked under SpecClassify *)

\* the text the code gets for a tag
TagText(el) == GetTagInfo(el).dst

\* every tag read the Siemens classifier makes succeeds
SiemensReadsOK ==
  /\ file.dicom
  /\ GetTagInfo(ds.manufacturer).ok /\ GetTagInfo(ds.model).ok
  /\ Contains(TagText(ds.manufacturer), <<"SIEMENS">>) => GetTagInfo(ds.imageType).ok

IsSiemensMMR ==
  /\ Contains(TagText(ds.manufacturer), <<"SIEMENS">>)
  /\ Contains(TagText(ds.model), <<"Biograph_mMR">>)

IsGE == Contains(TagText(ds.manufacturer), <<"GE MEDICAL SYSTEMS">>)

CodeHas(c) == Contains(TagText(ds.rawDataType), <<c>>)
SinoHas(c) == Contains(TagText(ds.sinoType), <<c>>)
CalHas(c) == Contains(TagText(ds.calType), <<c>>)

\* the tag the GE classifier reads second, if any
GESecondTag ==
  IF CodeHas("3") THEN ds.sinoType
  ELSE IF CodeHas("4") \/ CodeHas("5") THEN ds.calType
  ELSE TextEl(<<>>)

\* every tag read the GE classifier makes succeeds
GEReadsOK ==
  /\ file.dicom
  /\ GetTagInfo(ds.manufacturer).ok /\ GetTagInfo(ds.model).ok
  /\ IsGE => GetTagInfo(ds.rawDataType).ok /\ GetTagInfo(GESecondTag).ok

\* the container subtype that matches a kind
C7_Subtype(kind) ==
  CASE kind = "EMMRLIST" -> "MMR32BitList"
    [] kind = "EMMRSINO" -> "MMRSino"
    [] kind = "EMMRNORM" -> "MMRNorm"
    [] kind = "EGEPETLIST" -> "GEPETList"
    [] kind \in {"EGEPETSINO", "EGEPETCTAC"} -> "GEPETSino"
    [] kind \in {"EGEPETNORM2D", "EGEPETNORM3D"} -> "GEPETNorm"
    [] kind = "EGEPETGEO" -> "GEPETGeo"
    [] OTHER -> "nullptr"

\* C7 (as claimed): Create returns null exactly when the kind is Unknown, Error
\* or well-counter calibration; for every other kind, CT-attenuation sinogram
\* included, what it returns is a container of the matching subtype.
C7_CreateNullExactlyWhenUnsupported ==
  ret.op \in {"SiemensCreate", "GECreate"} =>
    /\ ret.res = "nullptr" <=> ret.kind \in {"EUNKNOWN", "EERROR", "EGEPETWCC"}
    /\ ret.res \notin {"nullptr", "raise"} => ret.res = C7_Subtype(ret.kind)

\* C8 (as claimed): the GE kind is decided by the value of (0021,1001): "3",
\* "4", "5", "7" select as listed, every other value is Unknown, and so is every
\* file whose manufacturer is not GE.
C8_GEKindByCodeValue ==
  (ret.op = "GECreate" /\ GEReadsOK) =>
    LET code == TagText(ds.rawDataType)
        sino == TagText(ds.sinoType)
        cal == TagText(ds.calType)
    IN  /\ (IsGE /\ code = <<"3">> /\ sino = <<"0">>) => ret.kind = "EGEPETSINO"
        /\ (IsGE /\ code = <<"3">> /\ sino = <<"5">>) => ret.kind = "EGEPETCTAC"
        /\ (IsGE /\ code = <<"4">> /\ cal = <<"0">>) => ret.kind = "EGEPETNORM2D"
        /\ (IsGE /\ code = <<"4">> /\ cal = <<"2">>) => ret.kind = "EGEPETNORM3D"
        /\ (IsGE /\ code = <<"5">>) => (ret.kind = "EGEPETGEO" <=> cal = <<"3">>)
        /\ (IsGE /\ code = <<"7">>) =>
             (ret.kind = "EUNKNOWN" /\ ret.note = "unsupported")
        /\ (IsGE /\ code \notin {<<"3">>, <<"4">>, <<"5">>, <<"7">>}) =>
             ret.kind = "EUNKNOWN"
        /\ ~IsGE => ret.kind = "EUNKNOWN"

\* C8 (amended): the GE kind is decided by the characters the value of
\* (0021,1001) contains, tested in the order "3", "4", "5", and the second tag
\* is tested by containment too; a value with none of them is Unknown (with
\* the unsupported report when it contains "7"), and so is a non-GE file.
C8_GEKindByCodeContainment ==
  (ret.op = "GECreate" /\ GEReadsOK) =>
    /\ (IsGE /\ CodeHas("3")) =>
         ret.kind = (IF SinoHas("0") THEN "EGEPETSINO"
                     ELSE IF SinoHas("5") THEN "EGEPETCTAC" ELSE "EUNKNOWN")
    /\ (IsGE /\ ~CodeHas("3") /\ CodeHas("4")) =>
         ret.kind = (IF CalHas("0") THEN "EGEPETNORM2D"
                     ELSE IF CalHas("2") THEN "EGEPETNORM3D" ELSE "EUNKNOWN")
    /\ (IsGE /\ ~CodeHas("3") /\ ~CodeHas("4") /\ CodeHas("5")) =>
         ret.kind = (IF CalHas("3") THEN "EGEPETGEO" ELSE "EUNKNOWN")
    /\ (IsGE /\ ~CodeHas("3") /\ ~CodeHas("4") /\ ~CodeHas("5")) =>
         /\ ret.kind = "EUNKNOWN"
         /\ ret.note = "unsupported" <=> CodeHas("7")
    /\ ~IsGE => (ret.kind = "EUNKNOWN" /\ ret.note = "")

\* C8 witness: a GE file whose code contains "3" without being "3" has been
\* classified into the sinogram family
C8_Witness ==
  /\ ret.op = "GECreate" /\ GEReadsOK /\ IsGE
  /\ CodeHas("3") /\ TagText(ds.rawDataType) # <<"3">>
  /\ ret.kind = "EGEPETCTAC"

\* C9 (as claimed): ListMode, Sinogram or Normalization exactly when the file
\* is a Siemens mMR file whose image type contains PRIMARY\PET_LISTMODE,
\* PRIMARY\PET_EM_SINO or PRIMARY\PET_NORM; the three are exclusive; Unknown
\* when none matches.
C9_SiemensKindBySubstring ==
  (ret.op = "SiemensCreate" /\ SiemensReadsOK) =>
    LET img == TagText(ds.imageType)
        l == IsSiemensMMR /\ Contains(img, <<"PRIMARY\\", "PET_LISTMODE">>)
        s == IsSiemensMMR /\ Contains(img, <<"PRIMARY\\", "PET_EM_SINO">>)
        n == IsSiemensMMR /\ Contains(img, <<"PRIMARY\\", "PET_NORM">>)
    IN  /\ ret.kind = "EMMRLIST" <=> l
        /\ ret.kind = "EMMRSINO" <=> s
        /\ ret.kind = "EMMRNORM" <=> n
        /\ ~(l /\ s) /\ ~(l /\ n) /\ ~(s /\ n)
        /\ ret.kind = "EUNKNOWN" <=> ~(l \/ s \/ n)

\* C9 (amended): the substrings are ORIGINAL\PRIMARY\PET_LISTMODE, ..._EM_SINO
\* and ..._NORM; an image type can contain several of them, and then the last
\* test that matches decides: Normalization before Sinogram before ListMode.
C9_SiemensKindLastMatchWins ==
  (ret.op = "SiemensCreate" /\ SiemensReadsOK) =>
    LET img == TagText(ds.imageType)
        l == IsSiemensMMR /\ Contains(img, PatList)
        s == IsSiemensMMR /\ Contains(img, PatSino)
        n == IsSiemensMMR /\ Contains(img, PatNorm)
    IN  /\ ret.kind = "EMMRNORM" <=> n
        /\ ret.kind = "EMMRSINO" <=> (s /\ ~n)
        /\ ret.kind = "EMMRLIST" <=> (l /\ ~s /\ ~n)
        /\ ret.kind = "EUNKNOWN" <=> ~(l \/ s \/ n)

\* C9 witness: an image type that contains the list-mode and the normalization
\* substring has been classified
C9_Witness ==
  /\ ret.op = "SiemensCreate" /\ SiemensReadsOK /\ IsSiemensMMR
  /\ Contains(TagText(ds.imageType), PatList)
  /\ Contains(TagText(ds.imageType), PatNorm)
  /\ ret.kind = "EMMRNORM"

\* the tags both factories read through Open, by GetTagInfo
OpenedTags == {ds.manufacturer, ds.model}

\* the text starts with the placeholder that stands for a value not loaded
IsPlaceholder(text) == Len(text) > 0 /\ text[1] = "Loaded:"

\* C26: GetTagInfo reports a tag whose data element has a null byte value as
\* absent (it returns false), never as present with an empty or a substituted
\* string, and it never returns as the value of the tag a stringified value
\* that starts with the placeholder 'Loaded:'.
C26_NullByteValueIsAbsent ==
  (ret.op \in {"SiemensCreate", "GECreate"} /\ file.dicom) =>
    \A el \in OpenedTags :
      /\ el.null => ~GetTagInfo(el).ok
      /\ ~IsPlaceholder(GetTagInfo(el).dst)

\* the tags the factory that ran has read: Open reads the manufacturer and,
\* if that read succeeded, the model; the Siemens classifier then reads the
\* image type, the GE one the raw data type and the tag that code selects
ClassifierTagsRead ==
  IF ~file.dicom THEN {}
  ELSE {ds.manufacturer}
       \cup (IF GetTagInfo(ds.manufacturer).ok THEN {ds.model} ELSE {})
       \cup (IF ret.op = "SiemensCreate" /\ Open(file, ds).ok
                  /\ Contains(TagText(ds.manufacturer), <<"SIEMENS">>)
             THEN {ds.imageType} ELSE {})
       \cup (IF ret.op = "GECreate" /\ Open(file, ds).ok /\ IsGE
             THEN {ds.rawDataType}
                  \cup (IF GetTagInfo(ds.rawDataType).ok
                             /\ (CodeHas("3") \/ CodeHas("4") \/ CodeHas("5"))
                        THEN {GESecondTag} ELSE {})
             ELSE {})

\* C27: when a tag that the classifier of either factory reads (manufacturer,
\* model, image type, GE raw data type, sinogram type or calibration type) is
\* absent from the data set, the kind is Error and never Unknown: Unknown is
\* returned only when every tag that was read was present.
C27_AbsentTagClassifiesAsError ==
  ret.op \in {"SiemensCreate", "GECreate"} =>
    /\ (\E el \in ClassifierTagsRead : el.null) => ret.kind = "EERROR"
    /\ ret.kind = "EUNKNOWN" => \A el \in ClassifierTagsRead : ~el.null

----------------------------------------------------------------------------
(* Claims about the container operations, checked under Spec *)

\* the header text the container resolves, and the word count it declares
ResolvedHeader == ReadHeader(ds, header)
Declared == WordCount(ResolvedHeader.header)

\* the header is readable and its word count line declares a count that
\* fits unsigned long
HeaderDeclaresCount ==
  ResolvedHeader.ok /\ Declared.label /\ Declared.number /\ Declared.ok

\* n bytes are exactly four times the declared count, as integers
FourTimesDeclared(n) == Declared.hi = 0 /\ n = 4 * Declared.lo

\* the length of the inline payload and of the sidecar; -1 when there is none
InlineLength == IF ds.payload.null THEN -1 ELSE ds.payload.len
SidecarLength == IF Exists(fs, Sidecar) THEN fs[Sidecar].len ELSE -1

\* C1: for a list-mode container whose header is readable and declares word
\* count W, IsValid returns true if and only if the inline payload is exactly
\* 4*W bytes long or a .bf sidecar exists and is exactly 4*W bytes long.
C1_ListModeValidIffExactLength ==
  (reader = "MMR32BitList" /\ ret.op = "IsValid" /\ HeaderDeclaresCount)
    => (ret.res = "true"
          <=> (FourTimesDeclared(InlineLength) \/ FourTimesDeclared(SidecarLength)))

\* C2: for a list-mode input whose inline payload length differs from 4*W and
\* that has no .bf sidecar, IsValid returns false and ExtractData(dst) returns
\* false and creates no file at dst.
C2_MismatchWithoutSidecarFails ==
  (reader = "MMR32BitList" /\ HeaderDeclaresCount
     /\ ~FourTimesDeclared(InlineLength) /\ ~Exists(fs, Sidecar))
    => /\ ret.op = "IsValid" => ret.res = "false"
       /\ ret.op = "ExtractData" =>
            /\ ret.res = "false"
            /\ Exists(fs, ret.dst) => ret.was # NoFile

IsNormLength(n) == n = MMRNORMBYTELENGTH

\* C10: for a normalization container, IsValid returns true if and only if
\* the header is readable and the inline payload is exactly 323404 bytes or a
\* .bf sidecar exists and is exactly 323404 bytes; a successful ExtractData
\* leaves a destination file of exactly 323404 bytes.
C10_NormValidIffFixedLength ==
  reader = "MMRNorm" =>
    /\ ret.op = "IsValid" =>
         (ret.res = "true"
            <=> (ResolvedHeader.ok
                   /\ (IsNormLength(InlineLength) \/ IsNormLength(SidecarLength))))
    /\ (ret.op = "ExtractData" /\ ret.res = "true") =>
         (Exists(fs, ret.dst) /\ fs[ret.dst].len = MMRNORMBYTELENGTH)

IsExtraction == ret.op \in {"ExtractHeader", "ExtractData"}

\* every file that existed before the calls is still there, unchanged
ExistingFilesUntouched == \A p \in DOMAIN fs0 : Exists(fs, p) /\ fs[p] = fs0[p]

\* C3 (as stated): for every container kind, ExtractHeader(dst) and
\* ExtractData(dst) called while something exists at dst return failure and
\* leave it unchanged, and every file that existed before the calls is
\* byte-identical afterwards.
C3_ExtractionRefusesExistingDst ==
  /\ ExistingFilesUntouched
  /\ (IsExtraction /\ ret.was # NoFile)
       => (ret.res = "false" /\ FileAt(fs, ret.dst) = ret.was)

\* the calls that test for dst before anything else can go wrong
TestsDstFirst ==
  \/ reader \in SiemensClasses /\ ret.op = "ExtractHeader"
  \/ reader = "MMR32BitList" /\ ret.op = "ExtractData"

\* the payload a call reads before it tests for dst
PayloadRead == IF reader \in GEClasses THEN ds.rdf ELSE ds.payload

\* C3 (amended): no extraction call changes or replaces anything that exists.
\* Called while something exists at dst, the call leaves it unchanged, and
\* IGEPET::ExtractData, which writes nothing, returns success; Siemens
\* ExtractHeader and list-mode ExtractData return failure; sinogram and
\* normalization ExtractData and GE ExtractHeader never return success: they
\* return failure, or crash on a payload tag without a byte value.  Every
\* file that existed before the calls is byte-identical afterwards.
C3_ExtractionNeverOverwrites ==
  /\ ExistingFilesUntouched
  /\ (IsExtraction /\ ret.was # NoFile) =>
       /\ FileAt(fs, ret.dst) = ret.was
       /\ IF reader \in GEClasses /\ ret.op = "ExtractData" THEN ret.res = "true"
          ELSE IF TestsDstFirst THEN ret.res = "false"
          ELSE ret.res = "false" \/ (ret.res = "fault" /\ PayloadRead.null)

\* a data file was extracted to a fresh path, and a second ExtractData to
\* the same path was refused
C3_Witness ==
  /\ reader = "MMR32BitList"
  /\ ret.op = "ExtractData"
  /\ ret.dst = Fresh
  /\ ret.was = Blob(4, "inline")
  /\ ret.res = "false"
  /\ fs[Fresh] = Blob(4, "inline")

\* C11: for a sinogram container IsValid returns true only when the header
\* is readable and at least one payload byte exists, in the inline payload or
\* in the .bf sidecar.
C11_SinoValidOnlyWithPayloadBytes ==
  (reader = "MMRSino" /\ ret.op = "IsValid" /\ ret.res = "true")
    => (ResolvedHeader.ok /\ (InlineLength >= 1 \/ SidecarLength >= 1))

\* a payload source whose length is the expected one: four times the
\* declared count for list mode, MMRNORMBYTELENGTH for a norm; a GE file has
\* no expected length, and its source is the RDF tag, present and not empty
ExactPayloadSource ==
  CASE reader = "MMR32BitList" ->
         HeaderDeclaresCount
           /\ (FourTimesDeclared(InlineLength) \/ FourTimesDeclared(SidecarLength))
    [] reader = "MMRNorm" -> IsNormLength(InlineLength) \/ IsNormLength(SidecarLength)
    [] OTHER -> ~ds.rdf.null /\ ds.rdf.len >= 1

\* C12: for every kind other than the Siemens sinogram, the GE kinds included,
\* IsValid returning true implies that a payload source exists whose length is
\* exactly the expected length.
C12_ValidImpliesExactPayload ==
  (reader # "MMRSino" /\ ret.op = "IsValid" /\ ret.res = "true")
    => ExactPayloadSource

\* C24: ExtractHeader resolves the header as ReadHeader does: whenever a
\* Siemens ExtractHeader returns true, ReadHeader on the same data set reports
\* a non-empty header and the bytes written to the destination equal the text
\* ReadHeader stores, whatever the primary tag (0029,1010) and the secondary
\* tag (0029,1110) hold.
C24_ExtractHeaderResolvesAsReadHeader ==
  (reader \in SiemensClasses /\ ret.op = "ExtractHeader" /\ ret.res = "true")
    => /\ ResolvedHeader.ok
       /\ Exists(fs, ret.dst)
       /\ fs[ret.dst].text = ResolvedHeader.header

\* C25: in IsValid and ExtractData of every Siemens kind the inline payload
\* length is taken from tag (7fe1,1010) only when the tag has a byte value;
\* when the tag is absent or its byte value is null the call raises no fault
\* and goes on to the sidecar, so that it returns true only with a sidecar.
C25_NullPayloadGoesToSidecar ==
  (reader \in SiemensClasses /\ ret.op \in {"IsValid", "ExtractData"}
     /\ ds.payload.null)
    => /\ ret.res # "fault"
       /\ ret.res = "true" => SidecarLength >= 0

\* C28: validation and extraction agree: for every Siemens kind, whatever the
\* header text, the inline payload and the sidecar are, if ExtractData(dst) to
\* a fresh destination returns true then IsValid on the same container
\* returns true.
C28_ExtractedImpliesValid ==
  (reader \in SiemensClasses /\ ret.op = "ExtractData" /\ ret.res = "true")
    => \A o \in IsValid(reader, ds, fs, header, Src) : o.res = "true"

\* C29: the list-mode length comparison is exact in unbounded arithmetic: for
\* every declared word count W that fits unsigned long, IsValid and
\* ExtractData accept a payload that has a byte value or a sidecar only if its
\* length equals 4*W as an integer; 4*W never wraps modulo 2^64 into a
\* smaller value that a payload length then matches.
C29_LengthComparisonDoesNotWrap ==
  (reader = "MMR32BitList" /\ ret.op \in {"IsValid", "ExtractData"}
     /\ ret.res = "true" /\ HeaderDeclaresCount /\ ~ds.payload.null)
    => (FourTimesDeclared(InlineLength) \/ FourTimesDeclared(SidecarLength))

----------------------------------------------------------------------------
(* Claims about the command line tools, checked under SpecCLI *)

StdDataFile == Path(OutDstDir, Stem(Src.name) \o <<".l">>)
StdHeaderFile == Path(OutDstDir, Stem(Src.name) \o <<".l", ".hdr">>)

\* a line without its carriage returns
LineText(line) == SelectSeq(line, LAMBDA c : c # "\r")

\* the first line of a text that holds the label, <<>> when none does
LineWith(text, label) ==
  LET lines == SplitLines(text)
      hits == {i \in 1..Len(lines) : Contains(lines[i], <<label>>)}
  IN  IF hits = {} THEN <<>>
      ELSE LineText(lines[CHOOSE i \in hits : \A j \in hits : i <= j])

\* C4: a successful nm_extract run without --noupdate and without a prefix on
\* a list-mode source that declares word count W leaves <stem>.l of exactly
\* 4*W bytes (the inline bytes when they match, else a copy of the sidecar)
\* and <stem>.l.hdr whose data file line reads name of data file:=<stem>.l.
C4_ExtractLeavesDataAndHeader ==
  (opt.tool = "nm_extract" /\ exit = "0" /\ ~opt.noupdate /\ ~opt.prefix
     /\ reader = "MMR32BitList" /\ HeaderDeclaresCount)
    => /\ Exists(fs, StdDataFile)
       /\ FourTimesDeclared(fs[StdDataFile].len)
       /\ IF FourTimesDeclared(InlineLength)
          THEN fs[StdDataFile] = Blob(ds.payload.len, ds.payload.id)
          ELSE Exists(fs, Sidecar) /\ fs[StdDataFile] = fs[Sidecar]
       /\ Exists(fs, StdHeaderFile)
       /\ LineWith(fs[StdHeaderFile].text, LName)
            = <<LName, ":=">> \o Stem(Src.name) \o <<".l">>

ErrorMessages ==
  {"ERROR: input path does not exist", "ERROR: does not appear to be a file",
   "ERROR: not recognised", "ERROR: file appears to be INVALID",
   "ERROR: data extraction failed", "ERROR: header extraction failed",
   "ERROR: header update failed"}

ErrorLogged == log \cap ErrorMessages # {}

ContainerReturned ==
  \E i \in 1..Len(trace) : trace[i].res \in SiemensClasses \cup GEClasses

\* C5: nm_validate ends with status 0 if and only if the input path exists,
\* is a regular file, a factory returned a container and IsValid returned
\* true; in every other case it ends with a non-zero status after logging an
\* error.
C5_ValidateExitStatus ==
  (opt.tool = "nm_validate" /\ exit # "running") =>
    /\ exit = "0" <=>
         /\ Exists(fs0, Src)
         /\ fs0[Src].id \notin {"dir", "rodir"}
         /\ ContainerReturned
         /\ ret.op = "IsValid" /\ ret.res = "true"
    /\ exit # "0" => ErrorLogged

NoContainer == {"nullptr", "raise"}

\* C6: the Siemens factory is consulted first; the GE factory is consulted if
\* and only if the Siemens factory produced no container (null or an
\* exception); the run is reported as unrecognised only after both produced
\* none; a run never ends on a Siemens miss alone.
C6_SiemensFirstThenGE ==
  /\ Len(trace) <= 2
  /\ Len(trace) >= 1 => trace[1].factory = "Siemens"
  /\ Len(trace) = 2 => trace[2].factory = "GE"
  /\ pc \in {"reader", "validate", "outdir", "data", "header", "update", "done"}
       => /\ Len(trace) >= 1
               <=> (Exists(fs0, Src) /\ fs0[Src].id \notin {"dir", "rodir"})
          /\ Len(trace) >= 1 => (Len(trace) = 2 <=> trace[1].res \in NoContainer)
  /\ "ERROR: not recognised" \in log
       => (Len(trace) = 2 /\ trace[1].res \in NoContainer /\ trace[2].res = "nullptr")
  /\ (exit # "running" /\ Len(trace) >= 1 /\ trace[1].res \in NoContainer)
       => Len(trace) = 2

\* C6 witness: the Siemens factory returned null, the GE factory a container,
\* and the run went on to succeed
C6_Witness ==
  /\ Len(trace) = 2
  /\ trace[1] = [factory |-> "Siemens", res |-> "nullptr"]
  /\ trace[2] = [factory |-> "GE", res |-> "GEPETSino"]
  /\ reader = "GEPETSino"
  /\ exit = "0"

\* what ExtractHeader writes when it copies what the container embeds: the
\* Interfile text of a Siemens container, the RDF bytes of a GE container
EmbeddedHeader ==
  IF reader \in SiemensClasses
  THEN LET r1 == GetTagInfo(ds.hdr1)
       IN  {TextFile(IF Contains(r1.dst, <<"SV10">>) THEN GetTagInfo(ds.hdr2).dst
                     ELSE r1.dst)}
  ELSE IF ds.rdf.null THEN {} ELSE {Blob(ds.rdf.len, ds.rdf.id)}

BothExtracted ==
  {"INFO: data written successfully", "INFO: header written successfully"} \subseteq log

ModifyHeaderInvoked == ret.op = "ModifyHeader"

CreatedFiles == {p \in DOMAIN fs \ DOMAIN fs0 : Len(p.name) > 0}

\* C16: a run of nm_extract that has ended with a non-zero exit status has
\* left none of the files it created.
C16_FailedRunLeavesNoOutput ==
  (opt.tool = "nm_extract" /\ exit \notin {"running", "0"}) => CreatedFiles = {}

----------------------------------------------------------------------------
(* Claims about header rewriting, checked under SpecHeader *)

\* the lines of a text that hold the label, without their carriage returns
LabelLines(text, label) ==
  LET lines == SplitLines(text)
  IN  [i \in 1..Len(lines) |-> LineText(lines[i])]

NameLines(text) ==
  SelectSeq(LabelLines(text, LName), LAMBDA l : Contains(l, <<LName>>))

\* application i was IMMR::ModifyHeader itself, found a name line and
\* returned true
Rewrote(i) ==
  /\ i \in 1..Len(trace)
  /\ reader \in {"MMR32BitList", "MMRSino"}
  /\ trace[i].op = "ModifyHeader"
  /\ trace[i].res = "true"
  /\ Contains(trace[i].before, <<LName>>)

Repaired(i) ==
  /\ i \in 2..Len(trace)
  /\ trace[i].op = "CleanUpLineEncoding"
  /\ trace[i - 1].op = "CleanUpLineEncoding"

\* C14: CleanUpLineEncoding applied to its own output returns that output,
\* token for token.
C14_CleanUpIdempotent ==
  \A i \in 1..Len(trace) : Repaired(i) => trace[i].after = trace[i].before

\* the lines of a text, without their carriage returns
LineContents(text) == LabelLines(text, LName)

\* application i was IMMR::ModifyHeader on a header without the label
LabelMissing(i) ==
  /\ i \in 1..Len(trace)
  /\ reader \in {"MMR32BitList", "MMRSino"}
  /\ trace[i].op = "ModifyHeader"
  /\ ~Contains(trace[i].before, <<LName>>)

\* C20: IMMR::ModifyHeader on a header file without a name of data file label
\* raises nothing, returns true, and leaves a file that holds every line the
\* file held, in order, with its content unchanged.
C20_MissingLabelIsNoOp ==
  \A i \in 1..Len(trace) :
    LabelMissing(i) =>
      /\ trace[i].res = "true"
      /\ \E n \in 0..Len(LineContents(trace[i].after)) :
           SubSeq(LineContents(trace[i].after), 1, n) = LineContents(trace[i].before)

\* every "\n" of the text follows exactly one "\r", and the text ends so
CanonicalLineEnds(text) ==
  /\ \A i \in 1..Len(text) :
       text[i] = "\n" =>
         /\ i > 1 /\ text[i - 1] = "\r"
         /\ ~(i > 2 /\ text[i - 2] = "\r")
  /\ Len(text) >= 2
  /\ text[Len(text) - 1] = "\r" /\ text[Len(text)] = "\n"

\* C21: whatever string CleanUpLineEncoding is given, every line of what it
\* returns ends with CR LF, none with a bare LF and none with CR CR LF, and
\* what it returns ends with CR LF.
C21_CleanUpLeavesCanonicalLineEnds ==
  \A i \in 1..Len(trace) :
    trace[i].op = "CleanUpLineEncoding" => CanonicalLineEnds(trace[i].after)

\* text b is text a with the inside of one line replaced: they share what
\* precedes that stretch and what follows it, and the stretch holds no "\n"
\* in either
DiffersInOneLine(a, b) ==
  \E n \in 0..Len(a), m \in 0..Len(a) :
    /\ n + m <= Len(a) /\ n + m <= Len(b)
    /\ SubSeq(b, 1, n) = SubSeq(a, 1, n)
    /\ SubSeq(b, Len(b) - m + 1, Len(b)) = SubSeq(a, Len(a) - m + 1, Len(a))
    /\ ~Contains(SubSeq(a, n + 1, Len(a) - m), <<"\n">>)
    /\ ~Contains(SubSeq(b, n + 1, Len(b) - m), <<"\n">>)
    /\ Contains(SubSeq(a, n + 1, Len(a) - m), <<LName>>)

\* C22: IMMR::ModifyHeader that returns true on a header with a name of data
\* file line leaves the file as it was but for the inside of that line:
\* every other line, its terminator included, is where it was and as it was,
\* and no line is added or removed.
C22_ModifyHeaderChangesOnlyNameLine ==
  \A i \in 1..Len(trace) :
    Rewrote(i) => DiffersInOneLine(trace[i].before, trace[i].after)

\* application i was MMRNorm::ModifyHeader on a header with both labels and
\* returned true
NormRewrote(i) ==
  /\ i \in 1..Len(trace)
  /\ reader = "MMRNorm"
  /\ trace[i].op = "ModifyHeader"
  /\ trace[i].res = "true"
  /\ Contains(trace[i].before, <<LName>>)
  /\ Contains(trace[i].before, <<LDataSet>>)

\* some line of the text, carriage returns aside, ends with tail
HasLineEnding(text, tail) ==
  \E k \in 1..Len(LineContents(text)) :
    LET l == LineContents(text)[k] IN
      Len(l) >= Len(tail) /\ SubSeq(l, Len(l) - Len(tail) + 1, Len(l)) = tail

\* C23: when MMRNorm::ModifyHeader returns true on a header that holds both
\* labels, the file holds a line that ends with %data set [1]:={0,,<f>} and a
\* line that ends with name of data file:=<f>, <f> being the file name of the
\* data file path without its directory.
C23_NormHeaderHoldsBothRewrites ==
  \A i \in 1..Len(trace) :
    NormRewrote(i) =>
      /\ HasLineEnding(trace[i].after,
                       <<LDataSet>> \o trace[i].dataFile.name \o <<"}">>)
      /\ HasLineEnding(trace[i].after, <<LName, ":=">> \o trace[i].dataFile.name)

----------------------------------------------------------------------------
(* Claims about ReadAsSiemensPTD, checked under SpecPTD *)

PtdBytes == fs[PtdSrc].text

\* ReadAsSiemensPTD has run on a file that could be opened
PtdRead == ret.op = "ReadAsSiemensPTD" /\ Exists(fs, PtdSrc)

\* the offsets at which the file holds the marker
Markers ==
  {k \in 0..(Len(PtdBytes) - 4) : SubSeq(PtdBytes, k + 1, k + 4) = DICM}

\* a marker at offset k lies within the last ScanWindow bytes of the file
InWindow(k) == k >= Len(PtdBytes) - ScanWindow

\* C17: when the only marker of the file starts at offset K and lies within
\* the last ScanWindow bytes, the scan reports K; when no marker lies within
\* the last ScanWindow bytes, the scan reports none and the function returns
\* EBAD, having examined at most ScanWindow positions.
C17_BackwardScanFindsMarkerInWindow ==
  PtdRead =>
    /\ \A k \in Markers :
         (Markers = {k} /\ InWindow(k)) => trace[1].pos = k
    /\ (\A k \in Markers : ~InWindow(k)) =>
         /\ trace[1].pos = -1
         /\ ret.res = "EBAD"
         /\ trace[1].examined <= ScanWindow

\* what the file holds from the reported marker on
FromMarker ==
  IF trace[1].pos \in Markers
  THEN SubSeq(PtdBytes, trace[1].pos + 1, Len(PtdBytes))
  ELSE <<>>

\* the header from the start sentinel to the end of the line of the
\* terminating field, <<>> when that line ends before the sentinel
TrimmedHeader ==
  LET h == FromMarker
      from == Find(h, <<LInterfile>>)
      at == Find(h, <<LComment>>)
      nl == Find(SubSeq(h, at, Len(h)), <<"\n">>)
      to == IF nl = 0 THEN Len(h) ELSE at + nl - 2
  IN  IF from = 0 \/ at = 0 \/ to < from THEN <<>> ELSE SubSeq(h, from, to)

\* the trimmed header declares exactly n words
DeclaresWords(n) ==
  LET wc == WordCount(TrimmedHeader)
  IN  wc.label /\ wc.number /\ wc.ok /\ wc.hi = 0 /\ wc.lo = n

\* C18: on a file that can be opened ReadAsSiemensPTD returns EGOOD or EBAD,
\* and EGOOD exactly when the marker is found at an offset K, the start
\* sentinel and the terminating field are found after it, K - 128 is a
\* multiple of 4 and the trimmed header declares (K - 128) / 4 words.
C18_PTDGoodIffAllChecksPass ==
  PtdRead =>
    /\ ret.res \in {"EGOOD", "EBAD"}
    /\ ret.res = "EGOOD" <=>
         /\ trace[1].pos \in Markers
         /\ Contains(FromMarker, <<LInterfile>>)
         /\ Contains(FromMarker, <<LComment>>)
         /\ trace[1].pos >= PREAMBLE
         /\ (trace[1].pos - PREAMBLE) % 4 = 0
         /\ DeclaresWords((trace[1].pos - PREAMBLE) \div 4)

\* the offsets the loop has handed to fseeko64 before fgetc: it starts at
\* the size of the file and steps back by one, once per position examined
SoughtOffsets == {Len(PtdBytes) - j : j \in 0..(trace[1].examined - 1)}

\* the numbers of bytes collected in headerData at each comparison with the
\* marker: one more at each position examined
WindowSizes == 1..trace[1].examined

\* the first offset of the last ScanWindow bytes of the file
WindowStart ==
  IF Len(PtdBytes) > ScanWindow THEN Len(PtdBytes) - ScanWindow ELSE 0

\* C30: every byte the backward scan of ReadAsSiemensPTD reads is read at an
\* offset from max(0, size - ScanWindow) up to but not including size: the
\* scan never reads at the end of file position and never seeks before the
\* start of a file shorter than the window; it never compares fewer than 4
\* collected bytes with the marker; and a marker offset it reports lies in
\* 0..size - 4.
C30_ScanReadsInsideTheFile ==
  PtdRead =>
    /\ \A c \in SoughtOffsets : WindowStart <= c /\ c < Len(PtdBytes)
    /\ \A n \in WindowSizes : n >= 4
    /\ trace[1].pos # -1 => trace[1].pos \in 0..(Len(PtdBytes) - 4)

----------------------------------------------------------------------------
(* Claims about the orientation code, checked under SpecOrient *)

\* the anatomical axis a letter names, "none" for any other character
Axis(c) ==
  CASE ToUpper(c) \in {"R", "L"} -> "RL"
    [] ToUpper(c) \in {"P", "A"} -> "PA"
    [] ToUpper(c) \in {"I", "S"} -> "IS"
    [] OTHER -> "none"

\* three letters of R/L/P/A/I/S that name the three axes
NamesThreeAxes(code) ==
  /\ Len(code) = 3
  /\ {Axis(code[i]) : i \in 1..3} = {"RL", "PA", "IS"}

OrientationSet == ret.op = "SetDesiredCoordinateOrientation"

\* C19: SetDesiredCoordinateOrientation returns true exactly when the code is
\* three letters of R/L/P/A/I/S, in either case, that name three distinct
\* axes; when it returns false finalOrientation is what it was.
C19_OrientationCodeAccepted ==
  OrientationSet =>
    /\ ret.res = "true" <=> NamesThreeAxes(header)
    /\ ret.res = "false" => trace[2].finalOrientation = trace[1].finalOrientation

====
